---- MODULE Spec2Model ----
(***************************************************************************)
(* Goal-oriented workflow execution (src/executor/goal_executor.py) and    *)
(* the goal data model (src/models/goal_step.py).                          *)
(*                                                                         *)
(* Strings are sequences of tokens.  The braces "{" and "}" are always     *)
(* tokens of their own; every other token is an opaque run of characters   *)
(* that holds no brace.  None and the empty string are both the empty      *)
(* sequence: the code only ever tests these fields for truthiness.         *)
(* Dictionaries are sequences of <<key, value>> pairs with distinct keys,  *)
(* in insertion order, as Python iterates them.                            *)
(***************************************************************************)
EXTENDS Integers, Sequences, FiniteSets, TLC

VARIABLES
    loaded,       \* the workflow document as the caller loaded it, never written
    wfIn,         \* the GoalWorkflow object the caller passes to execute_workflow
    params,       \* the parameters argument of execute_workflow
    wf,           \* the workflow execute_workflow iterates over (its local `workflow`)
    wpc,          \* position in execute_workflow: "idle", "loop", "goal", "break", "done"
    gi,           \* index of the goal step of the for loop (1-based)
    result,       \* the WorkflowResult under construction
    extracted,    \* GoalExecutor._extracted_data
    lastExt,      \* GoalExecutor._last_extracted
    curPlatform,  \* GoalExecutor._current_platform
    curApp,       \* GoalExecutor._current_app
    gpc,          \* position in execute_goal: "none", "enter", "loop", "agent", "agent_final", "ret"
    gres,         \* the GoalResult under construction
    retry,        \* loop variable `retry` of execute_goal
    si,           \* position in the sorted strategy list (1-based)
    startUrl,     \* local start_url of execute_goal
    agentStep,    \* loop variable `step` of _execute_agent_fallback
    page,         \* the page the browser shows (an index into Pages)
    activeApp,    \* the frontmost desktop application
    gemini,       \* gemini_client.is_available
    oracle,       \* the answers the extraction oracle gives to its next calls
    oracleIn,     \* the oracle answers as scripted at the start of the run
    last,         \* the most recent strategy attempt of the current goal
    acted,        \* an adapter side effect happened during the current execute_goal
    switched,     \* _handle_platform_switch ran during the current execute_goal
    interrupted,  \* a KeyboardInterrupt was raised in the thread of the run
    runs,         \* execute_workflow calls made on this GoalExecutor instance
    inferIn,      \* the arguments of the GoalInferrer call under study
    inferOut,     \* what that call returned (NotCalled before the call)
    goalsIn,      \* the goal list handed to GoalInferrer._consolidate_goals
    cons,         \* the loop state of _consolidate_goals
    inf,          \* the loop state of infer_goals_from_semantic_steps
    now,          \* time.time(), in seconds
    lock,         \* RateLimiter._lock: 0 when free, else the thread that holds it
    minute_window,\* RateLimiter._minute_window
    hour_window,  \* RateLimiter._hour_window
    last_call,    \* RateLimiter._last_call (0 for None)
    callers,      \* the threads that use the limiter in this run
    tpc,          \* where each thread stands in acquire / try_acquire
    wait_time,    \* local wait_time of each thread
    start_wait,   \* local start_wait of each thread's acquire
    wake,         \* the time at which each thread's time.sleep ends
    ncalls,       \* how many limiter calls each thread has started
    returned,     \* what each thread's last acquire / try_acquire returned
    recorded,     \* the time of every _record_call, in order
    issued,       \* the time of every oracle call of the Gemini client, in order
    xpc,          \* position in WorkflowExecutor.execute_goal_workflow
    session,      \* the browser session: "none", "open" or "closed"
    browser_executor, \* WorkflowExecutor.browser_executor is set
    desktop_executor, \* WorkflowExecutor.desktop_executor is set
    raising       \* an exception is on its way out of execute_goal_workflow

\* what one GoalExecutor run reads and writes
runVars == <<loaded, wfIn, params, wf, wpc, gi, result, extracted, lastExt, curPlatform,
             curApp, gpc, gres, retry, si, startUrl, agentStep, page, activeApp,
             gemini, oracle, oracleIn, last, acted, switched>>

\* the state of one GoalExecutor run
execVars == <<runVars, interrupted, runs>>

\* the state of one GoalInferrer call
inferVars == <<inferIn, inferOut, goalsIn, cons, inf>>

\* the state of one RateLimiter, its threads and the clock
limiterVars == <<now, lock, minute_window, hour_window, last_call, callers, tpc,
                 wait_time, start_wait, wake, ncalls, returned, recorded, issued>>

\* the state of one WorkflowExecutor.execute_goal_workflow call
sessionVars == <<xpc, session, browser_executor, desktop_executor, raising>>

\* the state of the components a GoalExecutor run does not touch
otherVars == <<inferVars, limiterVars, sessionVars>>

vars == <<execVars, otherVars>>

----------------------------------------------------------------------------
(* Bounds of the model *)

MaxGoals == 2

MaxStrategies == 2

MaxRetries == 2

\* execute_workflow calls on one GoalExecutor instance
MaxRuns == 2

\* goals in the list handed to the consolidation pass
MaxGoalList == 3

\* the steps of a recording
MaxSteps == 3

\* the characters of a typed text
MaxText == 3

\* limiter calls the threads make in all
MaxCalls == 4

\* the clock stops at Epoch + MaxElapsed
MaxElapsed == 120

\* the limits the RateLimiter under study is constructed with
calls_per_minute == 2

calls_per_hour == 3

min_interval_seconds == 1

----------------------------------------------------------------------------
(* Strings *)

None == <<>>

Truthy(s) == s # <<>>

S(tok) == <<tok>>

\* f"{{{{{name}}}}}" : the placeholder pattern of a parameter name
Placeholder(name) == <<"{", "{">> \o name \o <<"}", "}">>

MatchAt(s, pat, i) ==
    /\ i + Len(pat) - 1 <= Len(s)
    /\ SubSeq(s, i, i + Len(pat) - 1) = pat

\* Python `sub in s`
Contains(s, sub) == \E i \in 1..(Len(s) + 1) : MatchAt(s, sub, i)

RECURSIVE ReplaceFrom(_, _, _, _)
ReplaceFrom(s, pat, rep, i) ==
    IF i > Len(s) THEN <<>>
    ELSE IF MatchAt(s, pat, i)
         THEN rep \o ReplaceFrom(s, pat, rep, i + Len(pat))
         ELSE <<s[i]>> \o ReplaceFrom(s, pat, rep, i + 1)

\* Python s.replace(pat, rep) for a non-empty pattern: leftmost,
\* non-overlapping occurrences
Replace(s, pat, rep) == ReplaceFrom(s, pat, rep, 1)

LowerTok(t) ==
    CASE t = "Yelp.com" -> "yelp.com"
      [] t = "Command"  -> "command"
      [] t = "Q"        -> "q"
      [] t = "Terminal" -> "terminal"
      [] t = "Yelp"     -> "yelp"
      [] t = "Click"    -> "click"
      [] t = "Paste"    -> "paste"
      [] OTHER          -> t

\* Python s.lower()
Lower(s) == [k \in 1..Len(s) |-> LowerTok(s[k])]

RECURSIVE LStrip(_)
LStrip(s) == IF s # <<>> /\ Head(s) = " " THEN LStrip(Tail(s)) ELSE s

RECURSIVE RStrip(_)
RStrip(s) ==
    IF s # <<>> /\ s[Len(s)] = " " THEN RStrip(SubSeq(s, 1, Len(s) - 1)) ELSE s

\* Python s.strip()
Strip(s) == RStrip(LStrip(s))

\* Values of parameter and extraction maps: a string or an integer.
StrVal(s) == [t |-> "str", v |-> s]

IntVal(n) == [t |-> "int", v |-> n]

Digit(d) ==
    CASE d = 0 -> "0" [] d = 1 -> "1" [] d = 2 -> "2" [] d = 3 -> "3"
      [] d = 4 -> "4" [] d = 5 -> "5" [] d = 6 -> "6" [] d = 7 -> "7"
      [] d = 8 -> "8" [] d = 9 -> "9"

RECURSIVE Digits(_)
Digits(n) == IF n < 10 THEN <<Digit(n)>> ELSE Digits(n \div 10) \o <<Digit(n % 10)>>

\* Python str(value)
Str(val) == IF val.t = "int" THEN Digits(val.v) ELSE val.v

----------------------------------------------------------------------------
(* Dictionaries *)

DKeys(d) == {d[k][1] : k \in 1..Len(d)}

DHas(d, key) == key \in DKeys(d)

DGet(d, key) == d[CHOOSE k \in 1..Len(d) : d[k][1] = key][2]

\* d[key] = val
DPut(d, key, val) ==
    IF DHas(d, key)
    THEN [k \in 1..Len(d) |-> IF d[k][1] = key THEN <<key, val>> ELSE d[k]]
    ELSE Append(d, <<key, val>>)

RECURSIVE DUpdate(_, _)
\* d.update(e)
DUpdate(d, e) ==
    IF e = <<>> THEN d ELSE DUpdate(DPut(d, Head(e)[1], Head(e)[2]), Tail(e))

\* d.get(key, "")
DGetOr(d, key, default) == IF DHas(d, key) THEN DGet(d, key) ELSE default

RECURSIVE ReplaceAll(_, _)
\* for key, value in d.items(): s = s.replace("{{key}}", str(value))
ReplaceAll(s, d) ==
    IF d = <<>> THEN s
    ELSE ReplaceAll(Replace(s, Placeholder(Head(d)[1]), Str(Head(d)[2])), Tail(d))

----------------------------------------------------------------------------
(* Data model: src/models/goal_step.py *)

\* SuccessCriteria() with every field at its default
EmptyCriteria ==
    [url_contains |-> None, url_pattern |-> None, url_changed |-> FALSE,
     page_type |-> None, page_contains_text |-> None,
     element_visible |-> None, element_contains |-> None,
     extracted_fields |-> <<>>, min_extracted_count |-> 0,
     app_active |-> None, timeout_success |-> FALSE]

\* SuccessCriteria.is_empty
is_empty(c) ==
    /\ ~Truthy(c.url_contains)
    /\ ~Truthy(c.url_pattern)
    /\ ~c.url_changed
    /\ ~Truthy(c.page_type)
    /\ ~Truthy(c.page_contains_text)
    /\ ~Truthy(c.element_visible)
    /\ ~Truthy(c.element_contains)
    /\ ~Truthy(c.extracted_fields)
    /\ c.min_extracted_count = 0
    /\ ~Truthy(c.app_active)
    /\ ~c.timeout_success

\* Strategy(name=..., priority=...) with the other fields at their defaults
Strategy(name, priority) ==
    [name |-> name, priority |-> priority, selector |-> None,
     text_match |-> None, visual_description |-> None, input_value |-> None,
     shortcut_keys |-> None, requires_platform |-> None,
     requires_url_pattern |-> None]

\* GoalStep(...) with the fields the executor reads
GoalStep(type, platform, app, criteria, strategies, retries) ==
    [goal_type |-> type, goal_description |-> S("do"), platform |-> platform,
     app_name |-> app, success_criteria |-> criteria,
     strategies |-> strategies, parameters |-> <<>>,
     fallback_to_agent |-> FALSE, agent_goal_prompt |-> None,
     optional |-> FALSE, max_retries |-> retries, template |-> None]

Browser == S("browser")

Desktop == S("desktop")

Chrome == S("Chrome")

Notes == S("Notes")

Terminal == S("Terminal")

----------------------------------------------------------------------------
(* The world the adapters act on *)

\* The pages the browser can show: URL, the type the oracle sees in a
\* screenshot, the body text and the selectors of the visible elements.
Pages ==
    << [url |-> <<"google.com">>, type |-> S("home"),
        text |-> <<"Search">>, visible |-> {}],
       [url |-> <<"google.com", "/search">>, type |-> S("list_page"),
        text |-> <<"Results">>, visible |-> {S("#next")}],
       [url |-> <<"Yelp.com", "/biz">>, type |-> S("detail_page"),
        text |-> <<"Reviews">>, visible |-> {S("#book")}] >>

PageIds == DOMAIN Pages

Apps == {S("Finder"), Notes, Terminal}

ExtractYieldTwo == << <<S("a"), IntVal(3)>>, <<S("b"), StrVal(S("x"))>> >>

\* What one call of the extraction oracle can return
ExtractYields ==
    { <<>>,
      << <<S("a"), IntVal(1)>> >>,
      << <<S("b"), IntVal(2)>> >>,
      ExtractYieldTwo }

\* An adapter side effect
Fx(kind, arg) == [kind |-> kind, arg |-> arg]

SeqsUpTo(X, n) == UNION {[1..k -> X] : k \in 0..n}

----------------------------------------------------------------------------
(* Safety guard: src/utils/safety_guard.py *)

RECURSIVE SplitOn(_, _, _)
\* Python s.split(sep) for a one-token separator; cur is the piece being read
SplitOn(s, sep, cur) ==
    IF s = <<>> THEN <<cur>>
    ELSE IF Head(s) = sep THEN <<cur>> \o SplitOn(Tail(s), sep, <<>>)
         ELSE SplitOn(Tail(s), sep, Append(cur, Head(s)))

\* Python s.split(): the runs of tokens between whitespace
Words(s) == SelectSeq(SplitOn(s, " ", <<>>), LAMBDA w : w # <<>>)

\* SafetyGuard.BLOCKED_SHORTCUTS
BLOCKED_SHORTCUTS ==
    { <<S("command"), S("option"), S("control"), S("eject")>>,
      <<S("command"), S("control"), S("eject")>>,
      <<S("command"), S("option"), S("eject")>>,
      <<S("control"), S("command"), S("q")>>,
      <<S("command"), S("option"), S("escape")>>,
      <<S("command"), S("shift"), S("q")>>,
      <<S("command"), S("control"), S("q")>> }

\* SafetyGuard.check_shortcut(keys).allowed with strict_mode=False
check_shortcut(keys) ==
    LET keys_normalized == [k \in 1..Len(keys) |-> Strip(Lower(keys[k]))]
    IN  keys_normalized \notin BLOCKED_SHORTCUTS

\* terminal-like application names of check_typed_text
TerminalApps == {S("Terminal"), S("iTerm"), S("Console")}

is_terminal_context(app_name) ==
    \/ app_name \in TerminalApps
    \/ Contains(Lower(app_name), S("terminal"))

\* BLOCKED_TYPE_PATTERNS, case-insensitive search; of the patterns these two
\* are modelled: ^\s*rm\s+-rf\s+/\s*$  and  ^\s*sudo\s+shutdown
MatchesBlockedPattern(text) ==
    LET w == Words(Lower(text))
    IN  \/ w = <<S("rm"), S("-rf"), S("/")>>
        \/ /\ Len(w) >= 2
           /\ w[1] = S("sudo")
           /\ Head(w[2]) = "shutdown"

\* SafetyGuard.check_typed_text(text, app_name).allowed
check_typed_text(text, app_name) ==
    IF ~is_terminal_context(app_name) THEN TRUE
    ELSE ~MatchesBlockedPattern(text)

SafetyNeverBlocks(goal, strategy) == FALSE

\* The safety checks at the head of _execute_strategy: TRUE when the
\* strategy is rejected ("Safety blocked")
SafetyBlocked(goal, strategy) ==
    \/ /\ Truthy(strategy.shortcut_keys)
       /\ LET parts == SplitOn(strategy.shortcut_keys, "+", <<>>)
              keys == [k \in 1..Len(parts) |-> Strip(parts[k])]
          IN  ~check_shortcut(keys)
    \/ /\ Truthy(strategy.input_value)
       /\ goal.platform = Desktop
       /\ ~check_typed_text(strategy.input_value, goal.app_name)

----------------------------------------------------------------------------
(* Pure parts of GoalExecutor: src/executor/goal_executor.py *)

SortKeyAscending(s) == s.priority

\* key=lambda s: -s.priority
SortKey(s) == -s.priority

RECURSIVE InsertStable(_, _, _)
\* put index x behind every index of `sorted` whose key is not larger
InsertStable(sorted, x, strategies) ==
    IF sorted = <<>> THEN <<x>>
    ELSE IF SortKey(strategies[Head(sorted)]) <= SortKey(strategies[x])
         THEN <<Head(sorted)>> \o InsertStable(Tail(sorted), x, strategies)
         ELSE <<x>> \o sorted

RECURSIVE SortFrom(_, _, _)
SortFrom(strategies, k, acc) ==
    IF k > Len(strategies) THEN acc
    ELSE SortFrom(strategies, k + 1, InsertStable(acc, k, strategies))

\* sorted(goal.strategies, key=lambda s: -s.priority), as the indices into
\* goal.strategies in the order they are tried (sorted is stable)
SortedStrategies(strategies) == SortFrom(strategies, 1, <<>>)

RetryRoundsInclusive(goal) == 0..goal.max_retries

RetryRoundsOnce(goal) == 0..0

\* range(goal.max_retries)
RetryRounds(goal) == 0..(goal.max_retries - 1)

\* the placeholder handling of url_contains shared by the pre-check and
\* the criteria check
UrlCheck(url_contains, goal) ==
    Strip(IF Contains(url_contains, <<"{", "{">>) /\ Contains(url_contains, <<"}", "}">>)
          THEN ReplaceAll(url_contains, goal.parameters)
          ELSE url_contains)

\* AppLauncher.is_active
is_active(app, active) == active = app

\* GoalExecutor._is_goal_already_satisfied; detected is the answer of
\* _detect_current_page_type
IsGoalAlreadySatisfied(goal, hasPage, pg, active, ex, detected) ==
    LET criteria == goal.success_criteria
        current_url == Pages[pg].url
        descr == Lower(goal.goal_description)
    IN  IF goal.goal_type \in {"write", "shortcut", "save"} THEN FALSE
        ELSE \/ /\ goal.goal_type = "extract"
                /\ Truthy(ex)
                /\ Len(ex) >= criteria.min_extracted_count
             \/ /\ goal.platform = Browser
                /\ hasPage
                /\ \/ /\ Truthy(criteria.url_contains)
                      /\ LET url_check == UrlCheck(criteria.url_contains, goal)
                         IN  /\ Truthy(url_check)
                             /\ Contains(Lower(current_url), Lower(url_check))
                   \/ /\ goal.goal_type = "select"
                      /\ criteria.url_changed
                      /\ \/ Contains(descr, S("listing"))
                         \/ Contains(descr, S("detail"))
                      /\ detected = S("detail_page")
             \/ /\ goal.goal_type = "launch"
                /\ Truthy(criteria.app_active)
                /\ is_active(criteria.app_active, active)

EnoughExtractedAny(criteria, le) == Len(le) >= 1

\* if len(extracted) < criteria.min_extracted_count: return False
EnoughExtracted(criteria, le) == Len(le) >= criteria.min_extracted_count

\* GoalExecutor._check_success_criteria.  validate is the answer of
\* gemini_client.validate_page_type, textRaises whether page.inner_text raised.
CheckSuccessCriteria(criteria, goal, start_url, hasPage, pg, active, le, validate, textRaises) ==
    IF is_empty(criteria) \/ criteria.timeout_success THEN TRUE
    ELSE
      LET current_url == Pages[pg].url
          onPage == goal.platform = Browser /\ hasPage
          url_check == UrlCheck(criteria.url_contains, goal)
      IN  /\ (onPage /\ criteria.url_changed) => current_url # start_url
          /\ (onPage /\ Truthy(criteria.url_contains)) =>
                \/ ~Truthy(url_check)
                \/ url_check = Placeholder(S("site_filter"))
                \/ Contains(Lower(current_url), Lower(url_check))
          /\ (onPage /\ Truthy(criteria.url_pattern)) =>
                Contains(current_url, criteria.url_pattern)
          /\ (onPage /\ Truthy(criteria.page_type)) => validate
          /\ (onPage /\ Truthy(criteria.page_contains_text)) =>
                \/ textRaises
                \/ Contains(Pages[pg].text, criteria.page_contains_text)
          /\ Truthy(criteria.app_active) => is_active(criteria.app_active, active)
          /\ criteria.min_extracted_count > 0 => EnoughExtracted(criteria, le)

----------------------------------------------------------------------------
(* Strategy execution: GoalExecutor._execute_strategy and its helpers *)

\* max_scrolls of _scroll_to_find_content
max_scrolls == 5

\* max_agent_steps of _execute_agent_fallback
max_agent_steps == 5

\* WorkflowExecutor.execute_goal_workflow hands the executor a browser page
\* exactly when the workflow has a browser step
HasPage == \E k \in 1..Len(wfIn) : wfIn[k].platform = Browser

IsGemini(name) == name # <<>> /\ Head(name) = "gemini"

Scrolls(n) == [k \in 1..n |-> Fx("scroll", <<>>)]

\* One way a strategy can end: whether it raised, the adapter side effects
\* it performed, and the world and executor fields it leaves behind.
Outcome(raised, fx) ==
    [raised |-> raised, fx |-> fx, page |-> page, activeApp |-> activeApp,
     lastExt |-> lastExt, oracle |-> oracle]

\* a click, after which the browser may show any page
Navigated(fx) == {[Outcome(FALSE, fx) EXCEPT !.page = p] : p \in PageIds}

RECURSIVE ScrollFind(_, _, _)
\* the loop of _scroll_to_find_content from iteration i on, orc being the
\* answers the extraction oracle has left
ScrollFind(orc, i, avail) ==
    IF i >= max_scrolls
    THEN [found |-> FALSE, data |-> <<>>, oracle |-> orc, scrolls |-> i]
    ELSE LET ans  == IF avail /\ orc # <<>> THEN Head(orc) ELSE <<>>
             rest == IF avail /\ orc # <<>> THEN Tail(orc) ELSE orc
         IN  IF Len(ans) > 0
             THEN [found |-> TRUE, data |-> ans, oracle |-> rest, scrolls |-> i + 1]
             ELSE ScrollFind(rest, i + 1, avail)

\* _scroll_to_find_content
ScrollToFindContent ==
    LET r == ScrollFind(oracle, 0, gemini)
    IN  [Outcome(~r.found, Scrolls(r.scrolls))
            EXCEPT !.lastExt = IF r.found THEN r.data ELSE lastExt,
                   !.oracle = r.oracle]

\* _execute_gemini_strategy
GeminiStrategy(goal, strategy) ==
    IF ~gemini THEN {Outcome(TRUE, <<>>)}
    ELSE IF goal.goal_type = "extract"
    THEN LET ans == IF oracle # <<>> THEN Head(oracle) ELSE <<>>
             rest == IF oracle # <<>> THEN Tail(oracle) ELSE oracle
         IN  IF Len(ans) > 0
             THEN {[Outcome(FALSE, <<>>) EXCEPT !.lastExt = ans, !.oracle = rest]}
             ELSE LET r == ScrollFind(rest, 0, gemini)
                  IN  {[Outcome(~r.found, Scrolls(r.scrolls))
                          EXCEPT !.lastExt = IF r.found THEN r.data ELSE lastExt,
                                 !.oracle = r.oracle]}
    ELSE IF strategy.name = <<"gemini", "_click_listing">>
    THEN {o \in Navigated(<<Fx("click", <<>>)>>) :
              Pages[o.page].url # Pages[page].url}
         \cup {Outcome(TRUE, Scrolls(max_scrolls))}
    ELSE Navigated(<<Fx("click", <<>>)>>) \cup {Outcome(TRUE, <<>>)}

\* the query _execute_search_strategy types
SearchQuery(goal, strategy) ==
    LET query == IF Truthy(strategy.input_value) THEN strategy.input_value
                 ELSE IF Truthy(goal.template) THEN goal.template
                 ELSE DGetOr(goal.parameters, S("query"), StrVal(<<>>)).v
    IN  IF Contains(query, <<"{", "{">>) /\ Contains(query, <<"}", "}">>)
        THEN ReplaceAll(query, goal.parameters)
        ELSE query

\* _execute_search_strategy
SearchStrategy(goal, strategy) ==
    Navigated(<<Fx("click", <<>>), Fx("type", SearchQuery(goal, strategy)),
                Fx("press", S("Enter"))>>)
    \cup {Outcome(TRUE, <<>>)}

\* strategy.input_value or goal.parameters.get("text", "")
TypedText(goal, strategy) ==
    IF Truthy(strategy.input_value) THEN strategy.input_value
    ELSE DGetOr(goal.parameters, S("text"), StrVal(<<>>)).v

\* AppLauncher.ensure_active: nothing to do when the app is frontmost,
\* otherwise an activation that may fail
EnsureActive(app) ==
    IF is_active(app, activeApp) THEN {[fx |-> <<>>, activeApp |-> activeApp]}
    ELSE {[fx |-> <<Fx("activate", app)>>, activeApp |-> a] : a \in {app, activeApp}}

RECURSIVE FormatExtracted(_)
\* "\n".join(f"{field}: {value}" for field, value in extracted.items()), for
\* values of at most 100 characters
FormatExtracted(data) ==
    IF data = <<>> THEN <<>>
    ELSE Head(data)[1] \o <<":", " ">> \o Str(Head(data)[2])
         \o (IF Len(data) > 1 THEN <<"\n">> ELSE <<>>)
         \o FormatExtracted(Tail(data))

\* _execute_paste
ExecutePaste(goal) ==
    LET data == IF Truthy(extracted) THEN extracted ELSE lastExt
    IN  IF ~Truthy(data) THEN {Outcome(FALSE, <<>>)}
        ELSE {[Outcome(FALSE, e.fx \o <<Fx("clipboard", FormatExtracted(data))>>
                              \o (IF goal.app_name = Notes
                                  THEN <<Fx("click", <<>>)>> ELSE <<>>)
                              \o <<Fx("press", <<"command", "+", "v">>)>>)
                 EXCEPT !.activeApp = e.activeApp] :
              e \in EnsureActive(goal.app_name)}

\* the browser branch of _execute_strategy
BrowserStrategy(goal, strategy) ==
    LET name == strategy.name
    IN  CASE name \in {S("selector_click"), S("selector"), S("text_click"),
                       S("text"), S("role_click"), S("role")} ->
               Navigated(<<Fx("click", <<>>)>>) \cup {Outcome(TRUE, <<>>)}
          [] name = S("coordinates") -> Navigated(<<Fx("click", <<>>)>>)
          [] IsGemini(name) -> GeminiStrategy(goal, strategy)
          [] name \in {S("google_search"), S("search_input")} ->
               SearchStrategy(goal, strategy)
          [] name \in {S("scroll_down"), S("scroll_up")} ->
               {Outcome(FALSE, Scrolls(1))}
          [] name = S("scroll_to_content") ->
               {[ScrollToFindContent EXCEPT !.raised = FALSE]}
          [] name = S("selector_type") ->
               {Outcome(FALSE, <<Fx("click", <<>>),
                                 Fx("type", TypedText(goal, strategy))>>),
                Outcome(TRUE, <<>>)}
          [] name = S("focused_type") ->
               {Outcome(FALSE, <<Fx("type", TypedText(goal, strategy))>>)}
          [] OTHER -> {Outcome(FALSE, <<>>)}

\* the desktop branch of _execute_strategy
DesktopStrategy(goal, strategy) ==
    LET name == strategy.name
    IN  CASE name = S("activate_app") ->
               {[Outcome(FALSE, e.fx) EXCEPT !.activeApp = e.activeApp] :
                    e \in EnsureActive(goal.app_name)}
          [] name = S("launch_app") ->
               {[Outcome(FALSE, <<Fx("launch", goal.app_name)>>)
                    EXCEPT !.activeApp = a] : a \in {goal.app_name, activeApp}}
          [] name = S("save_shortcut") ->
               {Outcome(FALSE, <<Fx("press", <<"command", "+", "s">>)>>)}
          [] name = S("focused_type") ->
               {Outcome(FALSE,
                  <<Fx("type", DGetOr(goal.parameters, S("filled_template"),
                                      StrVal(TypedText(goal, strategy))).v)>>)}
          [] name = S("coordinates") -> {Outcome(FALSE, <<Fx("click", <<>>)>>)}
          [] IsGemini(name) ->
               IF ~gemini THEN {Outcome(TRUE, <<>>)}
               ELSE {Outcome(TRUE, <<>>),
                     Outcome(FALSE, <<Fx("click", <<>>)>>
                        \o (IF Truthy(strategy.input_value)
                            THEN <<Fx("type", strategy.input_value)>> ELSE <<>>))}
          [] name = S("paste_content") -> ExecutePaste(goal)
          [] OTHER -> {Outcome(FALSE, <<>>)}

\* GoalExecutor._execute_strategy: the ways executing the strategy can end
ExecuteStrategy(goal, strategy) ==
    IF SafetyBlocked(goal, strategy) THEN {Outcome(TRUE, <<>>)}
    ELSE IF goal.platform = Browser /\ HasPage THEN BrowserStrategy(goal, strategy)
    ELSE IF goal.platform = Desktop THEN DesktopStrategy(goal, strategy)
    ELSE {Outcome(FALSE, <<>>)}

----------------------------------------------------------------------------
(* GoalWorkflow.substitute_parameters and fill_template *)

\* replace_params(obj) for a string
replace_params(s, values) == ReplaceAll(s, values)

\* replace_params(obj) for a dict: its string values are rewritten
replace_params_dict(d, values) ==
    [k \in 1..Len(d) |->
        <<d[k][1], IF d[k][2].t = "str"
                   THEN StrVal(replace_params(d[k][2].v, values))
                   ELSE d[k][2]>>]

\* the per-strategy part of substitute_parameters
substitute_strategy(s, values) ==
    [s EXCEPT !.visual_description = replace_params(@, values),
              !.text_match = replace_params(@, values),
              !.input_value = replace_params(@, values)]

\* the per-step part of substitute_parameters
substitute_step(step, values) ==
    [step EXCEPT
        !.parameters = replace_params_dict(@, values),
        !.template = replace_params(@, values),
        !.agent_goal_prompt = replace_params(@, values),
        !.goal_description = replace_params(@, values),
        !.strategies = [k \in 1..Len(@) |-> substitute_strategy(@[k], values)]]

\* GoalWorkflow.substitute_parameters: a rewritten deep copy
substitute_parameters(workflow, values) ==
    [k \in 1..Len(workflow) |-> substitute_step(workflow[k], values)]

\* GoalWorkflow.fill_template
fill_template(template, extracted_data) == ReplaceAll(template, extracted_data)

----------------------------------------------------------------------------
(* Results *)

\* GoalResult(achieved=False)
NewGoalResult ==
    [achieved |-> FALSE, strategy_used |-> None, attempts |-> 0,
     extracted_data |-> <<>>, error |-> None, fallback_used |-> FALSE]

\* WorkflowResult(success=True, total_steps=n)
NewWorkflowResult(n) ==
    [success |-> TRUE, steps_executed |-> 0, steps_failed |-> 0,
     total_steps |-> n, extracted_data |-> <<>>, errors |-> <<>>,
     step_results |-> <<>>]

\* f"All {result.attempts} attempts failed"
AllFailed(attempts) == <<"All", " ">> \o Digits(attempts) \o <<" ", "attempts failed">>

\* f"Step {i+1}: {goal_result.error}"
StepError(i, error) ==
    <<"Step", " ">> \o Digits(i) \o <<":", " ">> \o (IF error = None THEN S("None") ELSE error)

NoAttempt == [round |-> 0, idx |-> 0, prev |-> 0, outcome |-> "none", fx |-> <<>>]

----------------------------------------------------------------------------
(* GoalExecutor.execute_workflow *)

RECURSIVE AddMissing(_, _)
\* for key, value in parameters.items():
\*     if key not in goal_step.parameters: goal_step.parameters[key] = value
AddMissing(d, values) ==
    IF values = <<>> THEN d
    ELSE AddMissing(IF DHas(d, Head(values)[1]) THEN d
                    ELSE Append(d, Head(values)), Tail(values))

\* execute_workflow up to the for loop: reset, substitution, fresh result
StartWorkflow ==
    /\ wpc = "idle"
    /\ extracted' = <<>>
    /\ lastExt' = <<>>
    /\ wf' = IF Truthy(params) THEN substitute_parameters(wfIn, params) ELSE wfIn
    /\ result' = NewWorkflowResult(Len(wf'))
    /\ gi' = 1
    /\ wpc' = "loop"
    /\ UNCHANGED <<otherVars, runs, interrupted, loaded, wfIn, params, curPlatform, curApp, gpc, gres, retry, si,
                   startUrl, agentStep, page, activeApp, gemini, oracle,
                   oracleIn, last, acted, switched>>

\* head of the loop body: template filling and parameter passing, then the
\* call of execute_goal.  Without parameters `workflow` is the caller's object.
BeginStep ==
    /\ wpc = "loop"
    /\ gi <= Len(wf)
    /\ LET goal_step == wf[gi]
           filled == IF Truthy(goal_step.template)
                     THEN DPut(goal_step.parameters, S("filled_template"),
                               StrVal(fill_template(goal_step.template, extracted)))
                     ELSE goal_step.parameters
       IN  /\ wf' = [wf EXCEPT ![gi].parameters = AddMissing(filled, params)]
           /\ wfIn' = IF Truthy(params) THEN wfIn ELSE wf'
    /\ wpc' = "goal"
    /\ gpc' = "enter"
    /\ UNCHANGED <<otherVars, runs, interrupted, loaded, params, gi, result, extracted, lastExt, curPlatform, curApp,
                   gres, retry, si, startUrl, agentStep, page, activeApp,
                   gemini, oracle, oracleIn, last, acted, switched>>

AbortsNever(goal_step) == FALSE

\* every unachieved goal aborts the workflow, an optional one included
AbortsAlways(goal_step) == TRUE

\* if not goal_step.optional: result.success = False; break
AbortsWorkflow(goal_step) == ~goal_step.optional

\* tail of the loop body: the goal's result is collected
CollectResult ==
    /\ wpc = "goal"
    /\ gpc = "ret"
    /\ LET goal_step == wf[gi]
           collected == [result EXCEPT !.step_results = Append(@, gres)]
       IN  IF gres.achieved
           THEN /\ result' = [collected EXCEPT !.steps_executed = @ + 1]
                /\ IF Truthy(gres.extracted_data)
                   THEN /\ extracted' = DUpdate(extracted, gres.extracted_data)
                        /\ lastExt' = DUpdate(lastExt, gres.extracted_data)
                   ELSE UNCHANGED <<extracted, lastExt>>
                /\ wpc' = "loop"
                /\ gi' = gi + 1
           ELSE /\ result' = [collected EXCEPT
                                 !.steps_failed = @ + 1,
                                 !.errors = Append(@, StepError(gi, gres.error)),
                                 !.success = IF AbortsWorkflow(goal_step) THEN FALSE ELSE @]
                /\ UNCHANGED <<extracted, lastExt>>
                /\ wpc' = IF AbortsWorkflow(goal_step) THEN "break" ELSE "loop"
                /\ gi' = IF AbortsWorkflow(goal_step) THEN gi ELSE gi + 1
    /\ gpc' = "none"
    /\ UNCHANGED <<otherVars, runs, interrupted, loaded, wfIn, params, wf, curPlatform, curApp, gres, retry, si,
                   startUrl, agentStep, page, activeApp, gemini, oracle,
                   oracleIn, last, acted, switched>>

\* after the loop: result.extracted_data = self._extracted_data; return
FinishWorkflow ==
    /\ \/ wpc = "loop" /\ gi > Len(wf)
       \/ wpc = "break"
    /\ result' = [result EXCEPT !.extracted_data = extracted]
    /\ wpc' = "done"
    /\ UNCHANGED <<otherVars, runs, interrupted, loaded, wfIn, params, wf, gi, extracted, lastExt, curPlatform,
                   curApp, gpc, gres, retry, si, startUrl, agentStep, page,
                   activeApp, gemini, oracle, oracleIn, last, acted, switched>>

----------------------------------------------------------------------------
(* GoalExecutor.execute_goal *)

\* GoalExecutor._handle_platform_switch: the tracked values it leaves and
\* the activation it performs
HandlePlatformSwitch(goal) ==
    IF goal.platform = Desktop /\ goal.app_name # curApp
    THEN {[curPlatform |-> goal.platform, curApp |-> goal.app_name,
           activeApp |-> e.activeApp, fx |-> e.fx] :
              e \in EnsureActive(goal.app_name)}
    ELSE {[curPlatform |-> goal.platform, curApp |-> curApp,
           activeApp |-> activeApp, fx |-> <<>>]}

SatisfiedReturnSwitches(goal) == HandlePlatformSwitch(goal)

\* the state-aware return precedes _handle_platform_switch: nothing is
\* switched and nothing is activated
SatisfiedReturn(goal) ==
    {[curPlatform |-> curPlatform, curApp |-> curApp,
      activeApp |-> activeApp, fx |-> <<>>]}

\* the answers _detect_current_page_type can give where the pre-check asks
DetectAnswers(goal) ==
    IF /\ goal.platform = Browser
       /\ HasPage
       /\ gemini
       /\ goal.goal_type = "select"
       /\ goal.success_criteria.url_changed
    THEN {Pages[page].type, None}
    ELSE {None}

\* the platform guard of the strategy loop: `continue`
SkipStrategy(goal, strategy) ==
    /\ Truthy(strategy.requires_platform)
    /\ strategy.requires_platform # goal.platform

\* the answers gemini_client.validate_page_type can give (it fails open)
ValidateAnswers(criteria, pg) ==
    IF gemini /\ Truthy(criteria.page_type)
    THEN {Pages[pg].type = criteria.page_type, TRUE}
    ELSE {TRUE}

\* whether page.inner_text("body") can raise where the check reads it
TextRaises(criteria) ==
    IF Truthy(criteria.page_contains_text) THEN BOOLEAN ELSE {FALSE}

FallbackIgnoresFlag(goal) == gemini /\ Truthy(goal.agent_goal_prompt)

\* the condition under which the agent fallback is tried
FallbackWithoutOracle(goal) ==
    /\ goal.fallback_to_agent
    /\ Truthy(goal.agent_goal_prompt)

FallbackAllowed(goal) ==
    /\ goal.fallback_to_agent
    /\ gemini
    /\ Truthy(goal.agent_goal_prompt)

FailedSilently(res) == res

\* result.error = f"All {result.attempts} attempts failed"
Failed(res) == [res EXCEPT !.error = AllFailed(res.attempts)]

AchievedByFirstListed(res, goal, strategy, le) ==
    [res EXCEPT !.achieved = TRUE,
                !.strategy_used = goal.strategies[1].name,
                !.extracted_data = IF goal.goal_type = "extract" THEN le ELSE @]

\* the result execute_goal returns when a strategy met the criteria
Achieved(res, goal, strategy, le) ==
    [res EXCEPT !.achieved = TRUE,
                !.strategy_used = strategy.name,
                !.extracted_data = IF goal.goal_type = "extract" THEN le ELSE @]

\* execute_goal up to the strategy loop: the state-aware pre-check, then the
\* platform switch and the sort
EnterGoal ==
    /\ wpc = "goal"
    /\ gpc = "enter"
    /\ LET goal == wf[gi]
       IN  /\ startUrl' = IF HasPage THEN Pages[page].url ELSE <<>>
           /\ \E detected \in DetectAnswers(goal) :
                IF IsGoalAlreadySatisfied(goal, HasPage, page, activeApp,
                                          extracted, detected)
                THEN /\ gres' = [NewGoalResult EXCEPT
                                    !.achieved = TRUE,
                                    !.strategy_used = S("already_satisfied")]
                     /\ gpc' = "ret"
                     /\ switched' = FALSE
                     /\ \E sw \in SatisfiedReturn(goal) :
                          /\ curPlatform' = sw.curPlatform
                          /\ curApp' = sw.curApp
                          /\ activeApp' = sw.activeApp
                          /\ acted' = (sw.fx # <<>>)
                ELSE /\ gres' = NewGoalResult
                     /\ gpc' = "loop"
                     /\ switched' = TRUE
                     /\ \E sw \in HandlePlatformSwitch(goal) :
                          /\ curPlatform' = sw.curPlatform
                          /\ curApp' = sw.curApp
                          /\ activeApp' = sw.activeApp
                          /\ acted' = (sw.fx # <<>>)
    /\ retry' = 0
    /\ si' = 1
    /\ agentStep' = 0
    /\ last' = NoAttempt
    /\ UNCHANGED <<otherVars, runs, interrupted, loaded, wfIn, params, wf, wpc, gi, result, extracted, lastExt,
                   page, gemini, oracle, oracleIn>>

\* the bare `except:` around page.inner_text in _check_success_criteria also
\* catches a KeyboardInterrupt: whether the check can swallow one
CheckSwallows(goal, textRaises) ==
    IF /\ textRaises
       /\ goal.platform = Browser
       /\ HasPage
       /\ Truthy(goal.success_criteria.page_contains_text)
    THEN {FALSE, TRUE} ELSE {FALSE}

\* whether a KeyboardInterrupt that arrives while the strategy runs can be
\* swallowed: by the bare `except:` of _execute_search_strategy, by the one
\* around pbpaste in _execute_paste, or by the criteria check that follows a
\* strategy that did not raise
SwallowedInterrupt(goal, strategy, raised, textRaises) ==
    IF /\ ~SafetyBlocked(goal, strategy)
       /\ \/ /\ goal.platform = Browser
             /\ HasPage
             /\ strategy.name \in {S("google_search"), S("search_input")}
          \/ /\ goal.platform = Desktop
             /\ strategy.name = S("paste_content")
          \/ (~raised /\ TRUE \in CheckSwallows(goal, textRaises))
    THEN {FALSE, TRUE} ELSE {FALSE}

\* whether the two for loops of execute_goal have a next iteration
LoopRunning(goal) ==
    /\ retry \in RetryRounds(goal)
    /\ si \in 1..Len(goal.strategies)

\* one iteration of the inner loop: the attempt is counted, the strategy is
\* skipped or executed, and the criteria are checked
AttemptStrategy ==
    /\ wpc = "goal"
    /\ gpc = "loop"
    /\ LoopRunning(wf[gi])
    /\ LET goal     == wf[gi]
           order    == SortedStrategies(goal.strategies)
           idx      == order[si]
           strategy == goal.strategies[idx]
           prev     == IF si = 1 THEN 0
                       ELSE IF last.outcome = "skipped" THEN last.prev
                       ELSE last.idx
           counted  == [gres EXCEPT !.attempts = @ + 1]
           more     == si < Len(order)
           Att(outcome, fx) ==
               [round |-> retry, idx |-> idx, prev |-> prev,
                outcome |-> outcome, fx |-> fx]
       IN  IF SkipStrategy(goal, strategy)
           THEN /\ gres' = counted
                /\ last' = Att("skipped", <<>>)
                /\ si' = IF more THEN si + 1 ELSE 1
                /\ retry' = IF more THEN retry ELSE retry + 1
                /\ UNCHANGED <<gpc, page, activeApp, lastExt, oracle, acted,
                               interrupted>>
           ELSE \E o \in ExecuteStrategy(goal, strategy) :
                \E validate \in ValidateAnswers(goal.success_criteria, o.page) :
                \E textRaises \in TextRaises(goal.success_criteria) :
                \E hit \in SwallowedInterrupt(goal, strategy, o.raised, textRaises) :
                  /\ interrupted' = (interrupted \/ hit)
                  /\ page' = o.page
                  /\ activeApp' = o.activeApp
                  /\ lastExt' = o.lastExt
                  /\ oracle' = o.oracle
                  /\ acted' = (acted \/ o.fx # <<>>)
                  /\ IF /\ ~o.raised
                        /\ CheckSuccessCriteria(goal.success_criteria, goal,
                              startUrl, HasPage, o.page, o.activeApp, o.lastExt,
                              validate, textRaises)
                     THEN /\ gres' = Achieved(counted, goal, strategy, o.lastExt)
                          /\ last' = Att("met", o.fx)
                          /\ gpc' = "ret"
                          /\ UNCHANGED <<si, retry>>
                     ELSE /\ gres' = counted
                          /\ last' = Att(IF ~o.raised THEN "unmet"
                                         ELSE IF SafetyBlocked(goal, strategy)
                                         THEN "blocked" ELSE "raised", o.fx)
                          /\ si' = IF more THEN si + 1 ELSE 1
                          /\ retry' = IF more THEN retry ELSE retry + 1
                          /\ UNCHANGED gpc
    /\ UNCHANGED <<otherVars, runs, loaded, wfIn, params, wf, wpc, gi, result, extracted, curPlatform,
                   curApp, startUrl, agentStep, gemini, oracleIn, switched>>

\* after the loops: the agent fallback is entered, or the goal fails
AfterLoop ==
    /\ wpc = "goal"
    /\ gpc = "loop"
    /\ ~LoopRunning(wf[gi])
    /\ IF FallbackAllowed(wf[gi])
       THEN /\ gpc' = "agent"
            /\ UNCHANGED gres
       ELSE /\ gpc' = "ret"
            /\ gres' = Failed(gres)
    /\ agentStep' = 0
    /\ UNCHANGED <<otherVars, runs, interrupted, loaded, wfIn, params, wf, wpc, gi, result, extracted, lastExt,
                   curPlatform, curApp, retry, si, startUrl, page, activeApp,
                   gemini, oracle, oracleIn, last, acted, switched>>

----------------------------------------------------------------------------
(* The agent fallback: GoalExecutor._execute_agent_fallback *)

\* the actions gemini_client.execute_computer_use_action can propose
AgentActions ==
    { [name |-> <<"click", "_at">>, text |-> <<>>],
      [name |-> <<"type", "_text_at">>, text |-> S("hello")],
      [name |-> <<"type", "_text_at">>, text |-> <<"rm", " ", "-rf", " ", "/">>],
      [name |-> <<"scroll", "_document">>, text |-> <<>>] }

\* GoalExecutor._execute_agent_action
ExecuteAgentAction(action, platform) ==
    LET name == Lower(action.name)
    IN  IF platform = Browser /\ HasPage
        THEN IF Contains(name, S("click"))
             THEN Navigated(<<Fx("click", <<>>)>>) \cup {Outcome(TRUE, <<>>)}
             ELSE IF Contains(name, S("type")) \/ Contains(name, S("key"))
             THEN {Outcome(FALSE, <<Fx("type", action.text)>>)}
             ELSE IF Contains(name, S("scroll")) THEN {Outcome(FALSE, Scrolls(1))}
             ELSE {Outcome(FALSE, <<>>)}
        ELSE IF Contains(name, S("click")) THEN {Outcome(FALSE, <<Fx("click", <<>>)>>)}
             ELSE IF Contains(name, S("type"))
             THEN {Outcome(FALSE, <<Fx("type", action.text)>>)}
             ELSE IF Contains(name, S("scroll")) THEN {Outcome(FALSE, Scrolls(1))}
             ELSE {Outcome(FALSE, <<>>)}

\* the result execute_goal returns when the fallback met the criteria
AchievedByAgent(res) ==
    [res EXCEPT !.achieved = TRUE, !.strategy_used = S("gemini_agent"),
                !.fallback_used = TRUE]

\* one iteration of the fallback loop: one action is requested and executed,
\* then the criteria are checked
AgentStep ==
    /\ wpc = "goal"
    /\ gpc = "agent"
    /\ LET goal == wf[gi]
       IN  IF ~HasPage
           THEN /\ gres' = Failed(gres)
                /\ gpc' = "ret"
                /\ UNCHANGED <<agentStep, page, activeApp, lastExt, oracle, acted,
                               interrupted>>
           ELSE \/ /\ gpc' = "agent_final"
                   /\ UNCHANGED <<gres, agentStep, page, activeApp, lastExt,
                                  oracle, acted, interrupted>>
                \/ \E action \in AgentActions :
                   \E o \in ExecuteAgentAction(action, goal.platform) :
                   \E validate \in ValidateAnswers(goal.success_criteria, o.page) :
                   \E textRaises \in TextRaises(goal.success_criteria) :
                   \E hit \in CheckSwallows(goal, textRaises) :
                     /\ interrupted' = (interrupted \/ hit)
                     /\ page' = o.page
                     /\ activeApp' = o.activeApp
                     /\ lastExt' = o.lastExt
                     /\ oracle' = o.oracle
                     /\ acted' = (acted \/ o.fx # <<>>)
                     /\ agentStep' = agentStep + 1
                     /\ IF o.raised
                        THEN /\ gres' = gres
                             /\ gpc' = "raised"
                        ELSE IF CheckSuccessCriteria(goal.success_criteria, goal,
                                   startUrl, HasPage, o.page, o.activeApp,
                                   o.lastExt, validate, textRaises)
                        THEN /\ gres' = AchievedByAgent(gres)
                             /\ gpc' = "ret"
                        ELSE /\ gres' = gres
                             /\ gpc' = IF agentStep + 1 < max_agent_steps
                                       THEN "agent" ELSE "agent_final"
    /\ UNCHANGED <<otherVars, runs, loaded, wfIn, params, wf, wpc, gi, result, extracted, curPlatform,
                   curApp, retry, si, startUrl, gemini, oracleIn, last, switched>>

\* the final criteria check of the fallback
AgentFinal ==
    /\ wpc = "goal"
    /\ gpc = "agent_final"
    /\ LET goal == wf[gi]
       IN  \E validate \in ValidateAnswers(goal.success_criteria, page) :
           \E textRaises \in TextRaises(goal.success_criteria) :
           \E hit \in CheckSwallows(goal, textRaises) :
             /\ interrupted' = (interrupted \/ hit)
             /\ gres' = IF CheckSuccessCriteria(goal.success_criteria, goal,
                              startUrl, HasPage, page, activeApp, lastExt,
                              validate, textRaises)
                        THEN AchievedByAgent(gres)
                        ELSE Failed(gres)
    /\ gpc' = "ret"
    /\ UNCHANGED <<otherVars, runs, loaded, wfIn, params, wf, wpc, gi, result, extracted, lastExt,
                   curPlatform, curApp, retry, si, startUrl, agentStep, page,
                   activeApp, gemini, oracle, oracleIn, last, acted, switched>>

----------------------------------------------------------------------------
(* The workflows, parameters and worlds the runs start from *)

sSelector == [Strategy(S("selector_click"), 50) EXCEPT !.selector = S("#go")]

sText == [Strategy(S("text_click"), 50) EXCEPT !.text_match = S("Go")]

sVisual ==
    [Strategy(<<"gemini", "_visual">>, 80) EXCEPT !.visual_description = S("the result")]

sCoordinates == Strategy(S("coordinates"), 10)

sDesktopOnly == [Strategy(S("role_click"), 90) EXCEPT !.requires_platform = Desktop]

sExtract == Strategy(<<"gemini", "_vision_extract">>, 100)

sScroll == Strategy(S("scroll_to_content"), 60)

sSearch ==
    [Strategy(S("google_search"), 100) EXCEPT
        !.selector = S("input[name=q]"), !.input_value = Placeholder(S("q")),
        !.requires_url_pattern = <<"google.com">>]

sActivate == Strategy(S("activate_app"), 100)

sSave == [Strategy(S("save_shortcut"), 100) EXCEPT !.shortcut_keys = <<"command", "+", "s">>]

sLogout ==
    [Strategy(S("keyboard_shortcut"), 80) EXCEPT
        !.shortcut_keys = <<"Command", "+", " ", "shift", "+", "Q">>]

sTypeRm ==
    [Strategy(S("focused_type"), 70) EXCEPT
        !.input_value = <<"rm", " ", "-rf", " ", "/">>]

sTypeText == [Strategy(S("focused_type"), 70) EXCEPT !.input_value = S("ls")]

\* Goals that differ in their strategy list and retry count
OrderGoals ==
    { GoalStep("select", Browser, Chrome, c, strategies, retries) :
        c \in {EmptyCriteria, [EmptyCriteria EXCEPT !.url_changed = TRUE]},
        strategies \in SeqsUpTo({sSelector, sText, sVisual, sDesktopOnly}, MaxStrategies),
        retries \in 0..MaxRetries }

CriteriaSet ==
    { EmptyCriteria,
      [EmptyCriteria EXCEPT !.timeout_success = TRUE, !.url_changed = TRUE],
      [EmptyCriteria EXCEPT !.url_changed = TRUE],
      [EmptyCriteria EXCEPT !.url_contains = S("yelp.com")],
      [EmptyCriteria EXCEPT !.url_contains = Placeholder(S("site_filter"))],
      [EmptyCriteria EXCEPT !.url_pattern = S("/search")],
      [EmptyCriteria EXCEPT !.page_type = S("detail_page")],
      [EmptyCriteria EXCEPT !.page_contains_text = S("Reviews")],
      [EmptyCriteria EXCEPT !.element_visible = S("#book")],
      [EmptyCriteria EXCEPT !.app_active = Notes],
      [EmptyCriteria EXCEPT !.min_extracted_count = 2] }

\* Goals that differ in their success criteria
CriteriaGoals ==
    { GoalStep("select", Browser, Chrome, c, <<sCoordinates>>, 1) : c \in CriteriaSet }
    \cup { GoalStep("extract", Browser, Chrome, c, <<sExtract>>, 2) : c \in CriteriaSet }
    \cup { GoalStep("select", Desktop, Notes, c, <<sCoordinates>>, 1) : c \in CriteriaSet }

\* Desktop goals whose strategies type text and press shortcuts
SafetyGoals ==
    { GoalStep("write", Desktop, app, c, strategies, retries) :
        app \in {Notes, Terminal},
        c \in {EmptyCriteria, [EmptyCriteria EXCEPT !.app_active = Chrome]},
        strategies \in SeqsUpTo({sTypeRm, sTypeText, sLogout, sSave}, MaxStrategies),
        retries \in 1..MaxRetries }

\* Goals that allow the agent fallback
FallbackGoals ==
    { [GoalStep("select", Browser, Chrome, c, <<sSelector, sCoordinates>>, retries)
          EXCEPT !.fallback_to_agent = TRUE, !.agent_goal_prompt = prompt] :
        retries \in 1..MaxRetries,
        c \in {[EmptyCriteria EXCEPT !.url_contains = S("yelp.com")],
               [EmptyCriteria EXCEPT !.url_changed = TRUE]},
        prompt \in {None, S("open the result")} }

\* Goals without any strategy and without the agent fallback
NoStrategyGoals ==
    { [GoalStep("launch", Desktop, Notes,
                [EmptyCriteria EXCEPT !.app_active = Notes], <<>>, retries)
          EXCEPT !.agent_goal_prompt = S("open Notes")] :
        retries \in 0..MaxRetries }
    \cup { [GoalStep("select", Browser, Chrome,
                     [EmptyCriteria EXCEPT !.url_contains = S("yelp.com")], <<>>, retries)
             EXCEPT !.agent_goal_prompt = S("open the result")] :
           retries \in 0..MaxRetries }

\* Desktop goals that allow the agent fallback, for workflows without a page
DesktopFallbackGoals ==
    { [GoalStep("launch", Desktop, Notes,
                [EmptyCriteria EXCEPT !.app_active = Notes], strategies, retries)
          EXCEPT !.fallback_to_agent = TRUE, !.agent_goal_prompt = S("open Notes")] :
        strategies \in {<<>>, <<sLogout>>}, retries \in 1..MaxRetries }

\* Extract goals that ask for two fields
ExtractGoals ==
    { GoalStep("extract", Browser, Chrome,
               [EmptyCriteria EXCEPT !.min_extracted_count = 2], strategies, retries) :
        strategies \in {<<sExtract>>, <<sScroll, sExtract>>},
        retries \in 1..MaxRetries }

gSearch ==
    GoalStep("search", Browser, Chrome,
             [EmptyCriteria EXCEPT !.url_changed = TRUE], <<sSearch>>, 1)

\* the Search goal _create_search_goal infers from a search recorded on Google
gSearchGoogle == [gSearch EXCEPT !.success_criteria.url_contains = S("/search")]

gExtract ==
    GoalStep("extract", Browser, Chrome,
             [EmptyCriteria EXCEPT !.min_extracted_count = 1], <<sExtract>>, 1)

gSelect ==
    [GoalStep("select", Browser, Chrome,
              [EmptyCriteria EXCEPT !.url_changed = TRUE], <<sSelector>>, 1)
        EXCEPT !.optional = TRUE, !.goal_description = <<"open", " ", "detail">>]

gLaunch ==
    GoalStep("launch", Desktop, Notes,
             [EmptyCriteria EXCEPT !.app_active = Notes], <<sActivate>>, 1)

gWrite ==
    [GoalStep("write", Desktop, Notes,
              [EmptyCriteria EXCEPT !.timeout_success = TRUE],
              <<[Strategy(S("focused_type"), 70) EXCEPT
                    !.input_value = Placeholder(S("a"))]>>, 1)
        EXCEPT !.template = Placeholder(S("a"))]

\* the WRITE goal _create_write_goal builds for a browser step whose text
\* has a placeholder
gWriteBrowser ==
    [GoalStep("write", Browser, Chrome,
              [EmptyCriteria EXCEPT !.timeout_success = TRUE],
              <<[Strategy(S("focused_type"), 70) EXCEPT
                    !.input_value = Placeholder(S("a"))]>>, 1)
        EXCEPT !.template = Placeholder(S("a"))]

\* the goal _create_paste_goal builds
gPaste ==
    [GoalStep("shortcut", Desktop, Notes,
              [EmptyCriteria EXCEPT !.timeout_success = TRUE],
              <<[Strategy(S("paste_content"), 100) EXCEPT
                    !.shortcut_keys = <<"command", "+", "v">>]>>, 1)
        EXCEPT !.template = Placeholder(S("extracted_content"))]

\* the WRITE goal _create_write_goal builds for a desktop step whose
\* clicked element has an accessibility role
gWriteAccessible ==
    [gWrite EXCEPT !.strategies =
        <<[Strategy(S("accessibility_type"), 90) EXCEPT
              !.input_value = Placeholder(S("a"))],
          [Strategy(S("focused_type"), 70) EXCEPT
              !.input_value = Placeholder(S("a"))],
          [Strategy(S("gemini_find_input"), 50) EXCEPT
              !.input_value = Placeholder(S("a")),
              !.visual_description = S("text input field or text area")]>>]

\* an extraction whose field value is a deny-listed command
ExtractYieldCommand == << <<S("a"), StrVal(<<"rm", " ", "-rf", " ", "/">>)>> >>

\* the WRITE goal of a step recorded in a terminal
gWriteTerminal == [gWrite EXCEPT !.app_name = Terminal]

\* a terminal goal that is left to the agent fallback
gAgentTerminal ==
    [GoalStep("select", Desktop, Terminal,
              [EmptyCriteria EXCEPT !.app_active = Notes], <<>>, 1)
        EXCEPT !.fallback_to_agent = TRUE,
               !.agent_goal_prompt = S("Click on the element")]

\* workflows that act on a terminal after an extraction in the browser
TerminalWorkflows == { <<gExtract, g>> : g \in {gWriteTerminal, gAgentTerminal} }

\* goals with a template, each run after an extraction
TemplateWorkflows ==
    { <<gExtract, g>> : g \in {gWrite, gWriteBrowser, gPaste, gWriteAccessible} }

\* The goals the multi-step workflows are built from
CatalogGoals == {gSearch, gExtract, gSelect, gLaunch, gWrite}

NoParams == <<>>

SomeParams == << <<S("q"), StrVal(S("pizza"))>>, <<S("site_filter"), StrVal(S("yelp.com"))>> >>

Finder == S("Finder")

Scenario(w, p, pg, app, avail, script) ==
    [wf |-> w, params |-> p, page |-> pg, activeApp |-> app,
     gemini |-> avail, oracle |-> script]

NumExtract(w) == Cardinality({k \in 1..Len(w) : w[k].goal_type = "extract"})

\* the answers scripted for the extraction oracle: one for each goal that
\* extracts
OracleScripts(w) == [1..NumExtract(w) -> ExtractYields]

Scenarios ==
    { Scenario(<<g>>, NoParams, 1, Finder, avail, <<>>) :
        g \in OrderGoals, avail \in BOOLEAN }
    \cup { Scenario(<<g>>, p, pg, app, avail, script) :
        g \in CriteriaGoals, p \in {NoParams, SomeParams}, pg \in PageIds,
        app \in {Finder, Notes}, avail \in BOOLEAN,
        script \in {<<>>, <<ExtractYieldTwo>>} }
    \cup { Scenario(<<g>>, NoParams, 1, Finder, TRUE, <<>>) : g \in SafetyGoals }
    \cup { Scenario(<<gSearchGoogle>>, NoParams, pg, Finder, avail, <<>>) :
        pg \in PageIds, avail \in BOOLEAN }
    \cup { Scenario(w, NoParams, 1, Finder, TRUE, <<y>>) :
        w \in TerminalWorkflows, y \in {ExtractYieldTwo, ExtractYieldCommand} }
    \cup { Scenario(<<g>>, NoParams, 1, Finder, avail, <<>>) :
        g \in FallbackGoals, avail \in BOOLEAN }
    \cup { Scenario(<<g>>, NoParams, 1, Finder, TRUE, script) :
        g \in ExtractGoals, script \in SeqsUpTo(ExtractYields, 2) }
    \cup { Scenario(<<g>>, NoParams, pg, app, avail, <<>>) :
        g \in NoStrategyGoals, pg \in PageIds, app \in {Finder, Notes},
        avail \in BOOLEAN }
    \cup { Scenario(<<g>>, NoParams, 1, app, TRUE, <<>>) :
        g \in DesktopFallbackGoals, app \in {Finder, Notes} }
    \cup UNION { { Scenario(w, NoParams, 1, Notes, TRUE, script) :
                     script \in OracleScripts(w) } : w \in TemplateWorkflows }
    \cup UNION { { Scenario(w, p, 1, app, TRUE, script) :
                     p \in {NoParams, SomeParams}, app \in {Finder, Notes},
                     script \in OracleScripts(w) } :
                 w \in SeqsUpTo(CatalogGoals, MaxGoals) }

----------------------------------------------------------------------------
(* GoalInferrer: src/compiler/goal_inferrer.py *)

\* a SemanticStep with the fields the navigation goal reads
SemanticStep(intent, typed_values, clicked_elements) ==
    [intent |-> intent, typed_values |-> typed_values,
     clicked_elements |-> clicked_elements, platform |-> Browser,
     app_name |-> Chrome, step_id |-> None, url_before |-> None,
     keyboard_shortcuts |-> <<>>, boundary_reason |-> None,
     start_timestamp |-> 0, end_timestamp |-> 0]

RECURSIVE Join(_, _)
\* Python sep.join(parts)
Join(sep, parts) ==
    IF parts = <<>> THEN <<>>
    ELSE IF Len(parts) = 1 THEN Head(parts)
    ELSE Head(parts) \o sep \o Join(sep, Tail(parts))

site_indicators ==
    <<S("zomato"), S("yelp"), <<"google", " ", "maps">>, S("tripadvisor"),
      S("booking.com"), S("amazon"), S("flipkart"), S("swiggy")>>

RECURSIVE SearchLookBack(_, _)
\* for i in range(step_index - 1, -1, -1) of _is_from_site_filtered_search;
\* all_steps is 1-based here, so all_steps[i] of the code is all_steps[i + 1]
SearchLookBack(i, all_steps) ==
    IF i < 0 THEN FALSE
    ELSE IF all_steps[i + 1].intent = "search"
         THEN /\ Truthy(all_steps[i + 1].typed_values)
              /\ \E k \in 1..Len(site_indicators) :
                    Contains(Lower(Join(S(" "), all_steps[i + 1].typed_values)),
                             site_indicators[k])
         ELSE SearchLookBack(i - 1, all_steps)

\* GoalInferrer._is_from_site_filtered_search
is_from_site_filtered_search(step_index, all_steps) ==
    SearchLookBack(step_index - 1, all_steps)

RECURSIVE SelectsBefore(_, _)
\* the count of consecutive select steps before the step, _get_click_ordinal
SelectsBefore(i, all_steps) ==
    IF i < 0 THEN 0
    ELSE IF all_steps[i + 1].intent = "select"
         THEN 1 + SelectsBefore(i - 1, all_steps)
         ELSE 0

ordinals == <<"first", "second", "third", "fourth", "fifth">>

Min(a, b) == IF a < b THEN a ELSE b

\* GoalInferrer._get_click_ordinal
get_click_ordinal(step_index, all_steps) ==
    S(ordinals[Min(SelectsBefore(step_index - 1, all_steps), 4) + 1])

\* Strategy(name=..., priority=..., visual_description=..., coordinates=...)
InferredStrategy(name, priority, visual_description, coordinates) ==
    [name |-> name, priority |-> priority, selector |-> None,
     text_match |-> None, visual_description |-> visual_description,
     input_value |-> None, shortcut_keys |-> None, requires_platform |-> None,
     coordinates |-> coordinates]

\* Python `a or b` on strings
Or(a, b) == IF Truthy(a) THEN a ELSE b

\* the strategies list _create_navigation_goal builds, before it is sorted
NavigationStrategies(step, intent, site, domain, ordinal, filtered) ==
    (IF intent = S("specific_site") /\ (Truthy(site) \/ filtered)
     THEN <<InferredStrategy(S("gemini_target_domain"), 80,
                <<"clickable link or search result that leads to ">>
                    \o Or(site, domain), None)>>
     ELSE IF intent \in {S("any_result"), S("first_result")}
     THEN <<InferredStrategy(S("gemini_generic_result"), 80,
                S("clickable search result link in the main content area"), None)>>
     ELSE <<>>)
    \o <<InferredStrategy(S("gemini_ordinal"), 60,
            ordinal \o <<" search result link in the main content area">>, None),
         InferredStrategy(S("gemini_any_result"), 40,
            S("any clickable search result link, not in header or sidebar"), None)>>
    \o (IF Truthy(step.clicked_elements)
           /\ Truthy(step.clicked_elements[1].coordinates)
        THEN <<InferredStrategy(S("coordinates"), 10, None,
                                step.clicked_elements[1].coordinates)>>
        ELSE <<>>)

NavigationCriteriaRecordedDomain(intent, site, domain, filtered) ==
    [EmptyCriteria EXCEPT !.url_contains = domain, !.url_changed = TRUE]

\* the success criteria _create_navigation_goal builds
NavigationCriteria(intent, site, domain, filtered) ==
    IF intent = S("specific_site")
    THEN IF filtered
         THEN [EmptyCriteria EXCEPT !.url_contains = Placeholder(S("site_filter")),
                                    !.url_changed = TRUE]
         ELSE IF Truthy(site)
         THEN [EmptyCriteria EXCEPT !.url_contains = site, !.url_changed = TRUE]
         ELSE [EmptyCriteria EXCEPT !.url_contains = IF Truthy(domain) THEN domain ELSE None,
                                    !.url_changed = TRUE]
    ELSE [EmptyCriteria EXCEPT !.url_changed = TRUE]

\* goal_description of the navigation goal
NavigationDescription(intent, site, domain, filtered) ==
    IF intent = S("specific_site")
    THEN IF filtered
         THEN <<"Navigate to ">> \o Placeholder(S("site_filter")) \o <<" result">>
         ELSE IF Truthy(site)
         THEN <<"Navigate to ">> \o site \o <<" result">>
         ELSE <<"Navigate to ">> \o Or(domain, S("search result"))
    ELSE S("Navigate to a search result")

\* agent_goal_prompt of the navigation goal
NavigationPrompt(intent, site, domain, filtered) ==
    IF intent = S("specific_site")
    THEN IF filtered
         THEN S("Click on a search result from the specified site")
         ELSE IF Truthy(site)
         THEN <<"Click on a search result from ">> \o site
         ELSE <<"Click on a search result from ">> \o domain
    ELSE S("Click on any relevant search result link")

\* the list in the order it was built, without the sort
AsBuilt(strategies) == strategies

\* sorted(strategies, key=lambda s: -s.priority)
Sorted(strategies) ==
    [k \in 1..Len(strategies) |-> strategies[SortedStrategies(strategies)[k]]]

\* the GoalStep _create_navigation_goal returns, from its locals
NavigationGoal(step, intent, site, domain, ordinal, filtered) ==
    [goal_type |-> "navigate",
     goal_description |-> NavigationDescription(intent, site, domain, filtered),
     platform |-> step.platform,
     app_name |-> step.app_name,
     success_criteria |-> NavigationCriteria(intent, site, domain, filtered),
     strategies |-> Sorted(NavigationStrategies(step, intent, site, domain, ordinal, filtered)),
     parameters |-> IF filtered THEN <<<<S("site_filter"), StrVal(site)>>>> ELSE <<>>,
     fallback_to_agent |-> TRUE,
     agent_goal_prompt |-> NavigationPrompt(intent, site, domain, filtered),
     optional |-> FALSE, max_retries |-> 3, template |-> None,
     extraction_schema |-> <<>>, original_step_id |-> step.step_id]

\* GoalInferrer._create_navigation_goal
create_navigation_goal(step, outcome, step_index, all_steps, step_analysis) ==
    NavigationGoal(step,
                   DGetOr(step_analysis, S("navigation_intent"), S("any_result")),
                   DGetOr(step_analysis, S("target_site"), None),
                   DGetOr(outcome, S("new_domain"), None),
                   get_click_ordinal(step_index, all_steps),
                   is_from_site_filtered_search(step_index, all_steps))

\* no inferrer call has returned yet
NotCalled == [goal_type |-> "none"]

\* the recordings a navigation click is inferred from: what the step-sequence
\* analysis said of the click, the domain the click led to, the steps
\* recorded before it and the element that was clicked
NavigationIntents ==
    {None, S("specific_site"), S("any_result"), S("first_result"), S("unknown")}

TargetSites == {None, S("yelp.com"), S("zomato.com")}

NewDomains == {S("yelp.com"), S("zomato.com"), S("example.com")}

StepAnalyses ==
    {(IF i = None THEN <<>> ELSE <<<<S("navigation_intent"), i>>>>)
        \o (IF t = None THEN <<>> ELSE <<<<S("target_site"), t>>>>) :
     i \in NavigationIntents, t \in TargetSites}

StepsBefore ==
    {<<>>,
     <<SemanticStep("search", <<S("pizza")>>, <<>>)>>,
     <<SemanticStep("search", <<S("pizza"), S("Yelp")>>, <<>>)>>,
     <<SemanticStep("search", <<S("pizza"), S("yelp")>>, <<>>),
       SemanticStep("select", <<>>, <<>>)>>,
     <<SemanticStep("search", <<S("yelp")>>, <<>>),
       SemanticStep("search", <<S("pizza")>>, <<>>)>>,
     <<SemanticStep("search", <<>>, <<>>)>>,
     <<SemanticStep("search", <<S("google"), S("maps")>>, <<>>),
       SemanticStep("extract", <<>>, <<>>)>>}

ClickedElements ==
    {<<>>, <<[coordinates |-> None]>>, <<[coordinates |-> <<"120", ",", "340">>]>>}

NavigationCalls ==
    {[step |-> SemanticStep("select", <<>>, c),
      outcome |-> <<<<S("new_domain"), d>>, <<S("domain_changed"), TRUE>>>>,
      step_index |-> Len(b),
      all_steps |-> Append(b, SemanticStep("select", <<>>, c)),
      step_analysis |-> a] :
     c \in ClickedElements, d \in NewDomains, b \in StepsBefore, a \in StepAnalyses}

\* _infer_goal_from_step reaches its navigation branch and returns the goal
CreateNavigationGoal ==
    /\ inferOut = NotCalled
    /\ inferIn.step.intent = "select"
    /\ DGet(inferIn.outcome, S("domain_changed"))
    /\ inferOut' = create_navigation_goal(inferIn.step, inferIn.outcome,
                                          inferIn.step_index, inferIn.all_steps,
                                          inferIn.step_analysis)
    /\ UNCHANGED <<inferIn, goalsIn, cons, inf, execVars, limiterVars, sessionVars>>

----------------------------------------------------------------------------
(* GoalInferrer: the goals built from recorded steps and _consolidate_goals *)

\* the result of elem.get(...) or of an Optional attribute that is None
NoGoal == [goal_type |-> "none"]

\* characters that are neither \w nor \s
Punctuation == {":", "-", "|", "=", "{", "}", "!", ".", ","}

\* GoalInferrer._is_label_text, for texts written one character per token
is_label_text(text) ==
    LET stripped == Strip(text)
        n == Len(stripped)
    IN  IF n <= 1 THEN FALSE
        ELSE IF stripped[n] = ":" THEN TRUE
        ELSE /\ n < 30
             /\ stripped[n] \in {"-", "|", "=", ":"}
             /\ \A k \in 1..(n - 1) : stripped[k] \notin Punctuation

RECURSIVE TemplateFrom(_, _, _, _)
\* the loop of _create_template_from_text over the detected parameters,
\* longest value first: the first occurrence of a value becomes a placeholder
TemplateFrom(text, template, found, sorted_params) ==
    IF sorted_params = <<>> THEN [template |-> template, params |-> found]
    ELSE LET value_lower == Head(sorted_params)[1]
             param_name  == Head(sorted_params)[2]
             text_lower  == Lower(template)
         IN  IF Contains(text_lower, value_lower)
             THEN LET idx == CHOOSE i \in 1..Len(text_lower) :
                                /\ MatchAt(text_lower, value_lower, i)
                                /\ \A j \in 1..(i - 1) :
                                      ~MatchAt(text_lower, value_lower, j)
                      original_value ==
                          SubSeq(text, idx,
                                 Min(idx + Len(value_lower) - 1, Len(text)))
                  IN  TemplateFrom(text,
                          SubSeq(template, 1, idx - 1) \o Placeholder(param_name)
                              \o SubSeq(template, idx + Len(value_lower),
                                        Len(template)),
                          DPut(found, param_name, StrVal(original_value)),
                          Tail(sorted_params))
             ELSE TemplateFrom(text, template, found, Tail(sorted_params))

\* GoalInferrer._create_template_from_text
create_template_from_text(text, sorted_params) ==
    TemplateFrom(text, text, <<>>, sorted_params)

\* the typed texts a template is made from, one character per token
TemplateTexts == SeqsUpTo({"a", "b", "Q"}, MaxText)

\* _param_value_to_name as the loop iterates it: lower-cased values with
\* their parameter names, longest value first
TemplateParameters ==
    { <<>>,
      << <<<<"a">>, <<"n">>>> >>,
      << <<<<"a", "b">>, <<"n">>>> >>,
      << <<<<"a", "b">>, <<"n">>>>, <<<<"q">>, <<"m">>>> >>,
      << <<<<"a", "b">>, <<"q">>>>, <<<<"q">>, <<"n">>>> >>,
      << <<<<"b">>, <<"n">>>>, <<<<"a">>, <<"m">>>> >> }

\* a call _create_template_from_text(text) with these detected parameters
TemplateCall(text, sorted_params) == [text |-> text, sorted_params |-> sorted_params]

\* the call returns (template, params)
CreateTemplateFromText ==
    /\ inferOut = NotCalled
    /\ DOMAIN inferIn = {"text", "sorted_params"}
    /\ inferOut' = create_template_from_text(inferIn.text, inferIn.sorted_params)
    /\ UNCHANGED <<inferIn, goalsIn, cons, inf, execVars, limiterVars, sessionVars>>

\* the GoalStep fields the consolidation pass reads, at their defaults
InferredGoal(type, description, app) ==
    [goal_type |-> type, goal_description |-> description, app_name |-> app,
     success_criteria |-> EmptyCriteria, strategies |-> <<>>,
     parameters |-> <<>>, template |-> None, extraction_schema |-> <<>>,
     original_step_id |-> None]

\* an entry of SemanticStep.clicked_elements
Element(selector, text, coordinates, accessibility_role) ==
    [selector |-> selector, text |-> text, coordinates |-> coordinates,
     accessibility_role |-> accessibility_role]

\* the strategies of _create_write_goal for a text that is not a label,
\* before they are sorted
WriteStrategies(platform, clicked_elements, template) ==
    LET Typing(name, priority, visual) ==
            [InferredStrategy(name, priority, visual, None)
                EXCEPT !.input_value = template]
    IN  IF platform = Desktop
        THEN (IF Truthy(clicked_elements)
                 /\ Truthy(clicked_elements[1].accessibility_role)
              THEN <<Typing(S("accessibility_type"), 90, None)>>
              ELSE <<>>)
             \o <<Typing(S("focused_type"), 70, None),
                  Typing(S("gemini_find_input"), 50,
                         S("text input field or text area"))>>
        ELSE (IF Truthy(clicked_elements) /\ Truthy(clicked_elements[1].selector)
              THEN <<[Typing(S("selector_type"), 100, None)
                        EXCEPT !.selector = clicked_elements[1].selector]>>
              ELSE <<>>)
             \o <<Typing(S("focused_type"), 70, None)>>

\* GoalInferrer._create_write_goal for a step without a paste shortcut: a
\* label is typed literally, any other text becomes a template
create_write_goal(platform, app, clicked_elements, original_text, sorted_params) ==
    IF is_label_text(original_text)
    THEN [InferredGoal("write", <<"Type label: ">> \o original_text, app)
            EXCEPT !.success_criteria.timeout_success = TRUE,
                   !.strategies = <<[InferredStrategy(S("focused_type"), 100,
                                                     None, None)
                                       EXCEPT !.input_value = original_text]>>]
    ELSE LET t == create_template_from_text(original_text, sorted_params)
             p == IF t.template = original_text
                  THEN <<<<S("text"), StrVal(original_text)>>>>
                  ELSE t.params
         IN  [InferredGoal("write", <<"Type: ">> \o t.template, app)
                EXCEPT !.success_criteria.timeout_success = TRUE,
                       !.strategies =
                           Sorted(WriteStrategies(platform, clicked_elements,
                                                  t.template)),
                       !.parameters = p,
                       !.template = t.template]

\* GoalInferrer._create_extract_goal: the schema is the first one of
\* extraction_schemas, {} when there is none
create_extract_goal(app, schema) ==
    [InferredGoal("extract",
                  <<"Extract", " ", "data", " ", "from", " ", "current", " ", "page">>,
                  app)
        EXCEPT !.success_criteria.min_extracted_count = 1,
               !.strategies = <<InferredStrategy(<<"gemini", "_vision_extract">>,
                                   100, S("Extract structured data from the page"),
                                   None)>>,
               !.extraction_schema = schema]

\* criteria that are strict for every listing click, recorded URL change or not
SelectCriteriaListingOnly(is_listing_click, url_changed) ==
    IF is_listing_click
    THEN [EmptyCriteria EXCEPT !.url_changed = TRUE]
    ELSE [EmptyCriteria EXCEPT !.timeout_success = TRUE,
                               !.url_changed = url_changed]

\* the success criteria of _create_select_goal
SelectCriteria(is_listing_click, url_changed) ==
    IF is_listing_click /\ url_changed
    THEN [EmptyCriteria EXCEPT !.url_changed = TRUE]
    ELSE [EmptyCriteria EXCEPT !.timeout_success = TRUE,
                               !.url_changed = url_changed]

\* GoalInferrer._create_select_goal
create_select_goal(app, is_listing_click, url_changed, ordinal, coords) ==
    LET listing == IF is_listing_click
                   THEN <<InferredStrategy(<<"gemini", "_click_listing">>, 80,
                              <<"clickable", " ", "listing", " ", "card">>, None)>>
                   ELSE <<>>
        visual == <<InferredStrategy(<<"gemini", "_visual">>, 50,
                        <<ordinal, " ", "clickable", " ", "element", " ", "in",
                          " ", "the", " ", "content", " ", "area">>, None)>>
        coordinate == IF Truthy(coords)
                      THEN <<InferredStrategy(S("coordinates"), 10, None, coords)>>
                      ELSE <<>>
    IN  [InferredGoal("select",
                      IF is_listing_click /\ url_changed
                      THEN <<"Click", " ", "on", " ", "a", " ", "listing", " ",
                             "to", " ", "view", " ", "details">>
                      ELSE <<"Click", " ", "element", " ", "in", " ">> \o app,
                      app)
            EXCEPT !.success_criteria = SelectCriteria(is_listing_click,
                                                       url_changed),
                   !.strategies = listing \o visual \o coordinate]

\* GoalInferrer._create_launch_goal
create_launch_goal(target_app) ==
    [InferredGoal("launch", <<"Switch", " ", "to", " ">> \o target_app, target_app)
        EXCEPT !.success_criteria.app_active = target_app,
               !.strategies = <<InferredStrategy(S("activate_app"), 100, None, None),
                                InferredStrategy(S("launch_app"), 50, None, None)>>]

\* GoalInferrer._create_paste_goal
create_paste_goal(app) ==
    [InferredGoal("shortcut", <<"Paste", " ", "extracted", " ", "content">>, app)
        EXCEPT !.success_criteria.timeout_success = TRUE,
               !.strategies = <<[InferredStrategy(S("paste_content"), 100, None, None)
                                   EXCEPT !.shortcut_keys = <<"command", "+", "v">>]>>,
               !.template = Placeholder(S("extracted_content"))]

\* GoalInferrer._is_spurious_select
is_spurious_select(goal) ==
    LET criteria == goal.success_criteria
        desc == Lower(goal.goal_description)
        is_generic ==
            \/ Contains(desc, <<"click", " ", "element", " ", "in">>)
            \/ Contains(desc, <<"click", " ", "in">>)
            \/ Contains(desc, <<"clickable", " ", "element">>)
            \/ Contains(desc, <<"interactive", " ", "element">>)
        has_specific_strategy ==
            \E k \in 1..Len(goal.strategies) :
                LET strategy == goal.strategies[k]
                IN  \/ Truthy(strategy.selector)
                    \/ Truthy(strategy.text_match)
                    \/ /\ Truthy(strategy.visual_description)
                       /\ ~Contains(strategy.visual_description, S("first"))
    IN  IF criteria.url_changed /\ ~criteria.timeout_success THEN FALSE
        ELSE IF Truthy(criteria.element_visible) \/ Truthy(criteria.page_type)
        THEN FALSE
        ELSE is_generic /\ ~has_specific_strategy /\ criteria.timeout_success

\* the coordinates of the first strategy that has some, else None
FirstCoordinates(goal) ==
    LET with == {k \in 1..Len(goal.strategies) :
                    Truthy(goal.strategies[k].coordinates)}
    IN  IF with = {} THEN None
        ELSE goal.strategies[CHOOSE k \in with : \A j \in with : k <= j].coordinates

Abs(x) == IF x < 0 THEN -x ELSE x

\* GoalInferrer._are_similar_selects
are_similar_selects(goal1, goal2) ==
    IF goal1.app_name # goal2.app_name THEN FALSE
    ELSE IF Lower(goal1.goal_description) = Lower(goal2.goal_description) THEN TRUE
    ELSE LET coords1 == FirstCoordinates(goal1)
             coords2 == FirstCoordinates(goal2)
         IN  /\ Truthy(coords1)
             /\ Truthy(coords2)
             /\ Abs(coords1[1] - coords2[1]) < 50
             /\ Abs(coords1[2] - coords2[2]) < 50

\* rule 5: goal.parameters.get("text", "") or goal.template or ""
WriteInputVal(goal) ==
    LET text == DGetOr(goal.parameters, S("text"), StrVal(<<>>)).v
    IN  IF Truthy(text) THEN text ELSE goal.template

IsPaste(goal) == Contains(Lower(goal.goal_description), S("paste"))

SkipLaunchRepeatedOnly(last_launch_app, prev_goal, goal) ==
    goal.app_name = last_launch_app

\* rule 3: the launch repeats the last launch target, or the goal kept last
\* is already in the target app
SkipLaunch(last_launch_app, prev_goal, goal) ==
    \/ goal.app_name = last_launch_app
    \/ prev_goal # NoGoal /\ prev_goal.app_name = goal.app_name

\* the loop state of _consolidate_goals before its first iteration
ConsolidateStart ==
    [pc |-> "loop", i |-> 1, consolidated |-> <<>>, seen_extracts |-> 0,
     last_launch_app |-> None, last_meaningful_select |-> NoGoal]

\* one iteration of the loop of _consolidate_goals on `goal`: the six rules
\* in order, each `continue` leaving the goal out
ConsolidateOne(st, goal) ==
    LET prev_goal == IF st.consolidated = <<>> THEN NoGoal
                     ELSE st.consolidated[Len(st.consolidated)]
        Keep(s) == [s EXCEPT !.consolidated = Append(@, goal)]
    IN  IF goal.goal_type = "extract"
        THEN IF st.seen_extracts = 0 \/ Truthy(goal.extraction_schema)
             THEN [Keep(st) EXCEPT !.seen_extracts = @ + 1]
             ELSE st
        ELSE IF goal.goal_type = "select" /\ is_spurious_select(goal) THEN st
        ELSE IF /\ goal.goal_type = "select"
                /\ st.last_meaningful_select # NoGoal
                /\ are_similar_selects(st.last_meaningful_select, goal)
        THEN st
        ELSE LET s2 == IF goal.goal_type = "select"
                       THEN [st EXCEPT !.last_meaningful_select = goal]
                       ELSE st
                 s3 == [s2 EXCEPT !.last_launch_app = goal.app_name]
             IN  IF /\ goal.goal_type = "launch"
                    /\ SkipLaunch(s2.last_launch_app, prev_goal, goal)
                 THEN s2
                 ELSE IF /\ goal.goal_type = "navigate"
                         /\ prev_goal.goal_type = "navigate"
                         /\ Truthy(prev_goal.success_criteria.url_contains)
                         /\ Truthy(goal.success_criteria.url_contains)
                         /\ Lower(prev_goal.success_criteria.url_contains)
                               = Lower(goal.success_criteria.url_contains)
                 THEN s3
                 ELSE IF /\ goal.goal_type = "write"
                         /\ Len(Strip(WriteInputVal(goal))) <= 2
                 THEN s3
                 ELSE IF /\ goal.goal_type = "shortcut"
                         /\ IsPaste(goal)
                         /\ prev_goal.goal_type = "shortcut"
                         /\ IsPaste(prev_goal)
                         /\ prev_goal.template = goal.template
                 THEN s3
                 ELSE Keep(s3)

\* the texts recorded for typing steps, one character per token
TypedTexts ==
    { <<"T", "o", ":">>, <<"h", "i">>, <<"h", "e", "l", "l", "o">>,
      <<" ", "a", " ">> }

\* _param_value_to_name, sorted longest value first
DetectedParameters == { <<>>, << <<<<"h", "i">>, <<"q">>>> >> }

\* goals the inferrer builds from the steps of one recording
InferredGoals ==
    { create_extract_goal(Chrome, schema) :
        schema \in {<<>>, << <<S("name"), StrVal(S("string"))>> >>} }
    \cup { create_write_goal(Desktop, Notes, <<>>, text, pm) :
             text \in TypedTexts, pm \in DetectedParameters }
    \cup { create_select_goal(Chrome, listing, TRUE, ordinal, coords) :
             listing \in BOOLEAN, ordinal \in {"first", "second"},
             coords \in {None, <<100, 100>>} }
    \cup { create_select_goal(Chrome, FALSE, FALSE, "first", <<400, 300>>) }
    \cup { create_launch_goal(Notes), create_launch_goal(Chrome),
           create_paste_goal(Notes) }
    \cup { create_navigation_goal(c.step, c.outcome, c.step_index, c.all_steps,
                                  c.step_analysis) :
             c \in {n \in NavigationCalls :
                      /\ n.all_steps = <<n.step>>
                      /\ n.step.clicked_elements = <<>>
                      /\ n.step_analysis = <<>>
                      /\ DGet(n.outcome, S("new_domain")) = S("yelp.com")} }

\* the goal lists handed to _consolidate_goals
GoalLists == SeqsUpTo(InferredGoals, MaxGoalList)

\* infer_goals_from_semantic_steps is not under study
NotInferring ==
    [pc |-> "idle", semantic_steps |-> <<>>, analysis |-> <<>>,
     sorted_params |-> <<>>, i |-> 0, goal_steps |-> <<>>]

\* the consolidation state while another component is under study
ConsolidateIdle ==
    /\ goalsIn = <<>>
    /\ cons = [ConsolidateStart EXCEPT !.pc = "idle"]
    /\ inf = NotInferring

\* the inferrer state while another component is under study
InferIdle ==
    /\ inferIn = CHOOSE c \in NavigationCalls : TRUE
    /\ inferOut = NotCalled
    /\ ConsolidateIdle

\* one iteration of `for i, goal in enumerate(goals)`
ConsolidateGoal ==
    /\ cons.pc = "loop"
    /\ cons.i <= Len(goalsIn)
    /\ cons' = [ConsolidateOne(cons, goalsIn[cons.i]) EXCEPT !.i = cons.i + 1]
    /\ UNCHANGED <<goalsIn, inferIn, inferOut, inf, execVars, limiterVars, sessionVars>>

\* return consolidated
ReturnConsolidated ==
    /\ cons.pc = "loop"
    /\ cons.i > Len(goalsIn)
    /\ cons' = [cons EXCEPT !.pc = "done"]
    /\ UNCHANGED <<goalsIn, inferIn, inferOut, inf, execVars, limiterVars, sessionVars>>

----------------------------------------------------------------------------
(* GoalInferrer.infer_goals_from_semantic_steps: the step analysis, the    *)
(* outcome of a step, the goal of a step and the loop over the recording.  *)
(* A URL is its host token (after an optional "www." token) followed by    *)
(* its path and query tokens.                                              *)

\* the tokens of a URL that belong to its path or query
UrlPathTokens ==
    {"/search", "/results", "/restaurants", "/biz", "/about", "?", "q=", "pizza"}

RECURSIVE Netloc(_)
\* urlparse(url).netloc
Netloc(url) ==
    IF url = <<>> \/ Head(url) \in UrlPathTokens THEN <<>>
    ELSE <<Head(url)>> \o Netloc(Tail(url))

\* GoalInferrer._extract_domain
extract_domain(url) ==
    IF ~Truthy(url) THEN None
    ELSE LET domain == Netloc(url)
         IN  IF domain # <<>> /\ Head(domain) = "www." THEN Tail(domain) ELSE domain

\* the analysis entry _heuristic_step_analysis makes for one step
StepAnalysis(is_focus_click, navigation_intent, target_site, merge_into) ==
    << <<S("is_focus_click"), is_focus_click>>,
       <<S("navigation_intent"), navigation_intent>>,
       <<S("target_site"), target_site>>,
       <<S("should_skip"), is_focus_click>>,
       <<S("merge_into"), merge_into>>,
       <<S("reasoning"), S("heuristic analysis")>> >>

\* the site names _heuristic_step_analysis looks for in the query
heuristic_site_indicators ==
    <<S("zomato"), S("yelp"), S("youtube"), S("amazon"), S("flipkart"),
      S("swiggy"), S("booking.com"), S("tripadvisor"), <<"google", " ", "maps">>>>

RECURSIVE FirstQuery(_)
\* the query of the first search step with typed values, "" when none
FirstQuery(steps) ==
    IF steps = <<>> THEN <<>>
    ELSE IF Head(steps).intent = "search" /\ Truthy(Head(steps).typed_values)
         THEN Lower(Join(S(" "), Head(steps).typed_values))
         ELSE FirstQuery(Tail(steps))

\* the first site of heuristic_site_indicators the query contains, or None
FirstSite(query) ==
    LET hits == {k \in 1..Len(heuristic_site_indicators) :
                    Contains(query, heuristic_site_indicators[k])}
    IN  IF hits = {} THEN None
        ELSE heuristic_site_indicators[CHOOSE k \in hits : \A j \in hits : k <= j]

\* one iteration of the loop of _heuristic_step_analysis, on steps[i]
\* (1-based); a time gap below 2.0 seconds makes a click a focus click
HeuristicEntry(steps, i) ==
    LET step == steps[i]
        has_next == i + 1 <= Len(steps)
        focus == /\ step.intent = "select"
                 /\ has_next
                 /\ step.app_name = steps[i + 1].app_name
                 /\ steps[i + 1].intent \in {"search", "write"}
                 /\ Truthy(steps[i + 1].typed_values)
                 /\ steps[i + 1].start_timestamp - step.end_timestamp < 2
        site == FirstSite(FirstQuery(SubSeq(steps, 1, i - 1)))
    IN  StepAnalysis(focus,
                     IF step.intent # "select" THEN None
                     ELSE IF Truthy(site) THEN S("specific_site")
                     ELSE S("any_result"),
                     IF step.intent = "select" THEN site ELSE None,
                     IF focus THEN steps[i + 1].step_id ELSE None)

\* GoalInferrer._heuristic_step_analysis: step_id -> analysis
heuristic_step_analysis(steps) ==
    [i \in 1..Len(steps) |-> <<steps[i].step_id, HeuristicEntry(steps, i)>>]

\* the outcome dictionary _analyze_outcome starts from
NoOutcome ==
    << <<S("url_changed"), FALSE>>, <<S("new_url"), None>>,
       <<S("new_domain"), None>>, <<S("domain_changed"), FALSE>>,
       <<S("page_type_changed"), FALSE>>, <<S("new_page_type"), None>>,
       <<S("app_changed"), FALSE>>, <<S("new_app"), None>>,
       <<S("data_extracted"), FALSE>>, <<S("extracted_value"), None>> >>

RECURSIVE OutcomeFrom(_, _, _)
\* for next_step in next_steps of _analyze_outcome, with its two breaks
OutcomeFrom(step, next_steps, outcome) ==
    IF next_steps = <<>> THEN outcome
    ELSE LET next_step == Head(next_steps)
             next_domain == extract_domain(next_step.url_before)
             current_domain == extract_domain(step.url_before)
         IN  IF /\ Truthy(next_step.url_before) /\ Truthy(step.url_before)
                /\ next_step.url_before # step.url_before
             THEN LET o1 == DPut(DPut(DPut(outcome, S("url_changed"), TRUE),
                                      S("new_url"), next_step.url_before),
                                 S("new_domain"), next_domain)
                  IN  IF /\ Truthy(next_domain) /\ Truthy(current_domain)
                         /\ next_domain # current_domain
                      THEN DPut(o1, S("domain_changed"), TRUE)
                      ELSE o1
             ELSE IF next_step.app_name # step.app_name
             THEN DPut(DPut(outcome, S("app_changed"), TRUE),
                       S("new_app"), next_step.app_name)
             ELSE OutcomeFrom(step, Tail(next_steps),
                              IF \E k \in 1..Len(next_step.keyboard_shortcuts) :
                                    next_step.keyboard_shortcuts[k] = "copy"
                              THEN DPut(outcome, S("data_extracted"), TRUE)
                              ELSE outcome)

\* GoalInferrer._analyze_outcome
analyze_outcome(step, next_steps) == OutcomeFrom(step, next_steps, NoOutcome)

\* Python `x in list`
InList(x, list) == \E k \in 1..Len(list) : list[k] = x

\* the URL fragments that mark a list page in _is_listing_click
list_page_indicators ==
    <<"/search", "/results", "/restaurants", "/hotels", "/products", "/listings",
      "/places", "/bars", "/cafes", "/shops", "q=", "query=", "search?", "?s=",
      "/collection", "/category">>

\* GoalInferrer._is_listing_click; step_index counts from 0 as in the code
is_listing_click(step, step_index, all_steps) ==
    LET url_lower == Lower(step.url_before)
        on_list_page == \E k \in 1..Len(list_page_indicators) :
                            Contains(url_lower, S(list_page_indicators[k]))
        followed_by_extract ==
            \E n \in {step_index + 1, step_index + 2} :
                /\ n < Len(all_steps)
                /\ \/ all_steps[n + 1].intent = "extract"
                   \/ InList("copy", all_steps[n + 1].keyboard_shortcuts)
    IN  on_list_page \/ followed_by_extract

\* GoalInferrer._create_search_goal
create_search_goal(step, outcome, sorted_params) ==
    LET original_query == Join(S(" "), step.typed_values)
        t == create_template_from_text(original_query, sorted_params)
        template == IF Truthy(t.params) THEN t.template ELSE original_query
        Typing(name, priority, visual) ==
            [InferredStrategy(name, priority, visual, None)
                EXCEPT !.input_value = template]
    IN  [InferredGoal("search", <<"Search for: ">> \o template, step.app_name)
            EXCEPT !.success_criteria.url_changed = TRUE,
                   !.success_criteria.url_contains =
                       IF Contains(step.url_before, S("google.com"))
                       THEN S("/search") ELSE None,
                   !.strategies =
                       <<[Typing(S("google_search"), 100, None)
                            EXCEPT !.selector = S("textarea[name=q], input[name=q]")],
                         [Typing(S("search_input"), 80, None)
                            EXCEPT !.selector = S("input[type=search]")],
                         Typing(S("gemini_find_search"), 50,
                                S("search input box or search field"))>>,
                   !.parameters =
                       IF Truthy(t.params) THEN t.params
                       ELSE <<<<S("query"), StrVal(original_query)>>>>,
                   !.template = template]

\* GoalInferrer._create_save_goal
create_save_goal(step) ==
    [InferredGoal("save", S("Save document"), step.app_name)
        EXCEPT !.success_criteria.timeout_success = TRUE,
               !.strategies = <<[InferredStrategy(S("save_shortcut"), 100, None, None)
                                   EXCEPT !.shortcut_keys = <<"command", "+", "s">>]>>]

\* GoalInferrer._create_generic_click_goal
create_generic_click_goal(step, outcome) ==
    LET elem == step.clicked_elements[1]
        from_element ==
            IF Truthy(step.clicked_elements)
            THEN (IF Truthy(elem.selector)
                  THEN <<[InferredStrategy(S("selector_click"), 100, None, None)
                            EXCEPT !.selector = elem.selector]>>
                  ELSE <<>>)
                 \o (IF Truthy(elem.text)
                     THEN <<[InferredStrategy(S("text_click"), 80, None, None)
                               EXCEPT !.text_match = elem.text]>>
                     ELSE <<>>)
                 \o (IF Truthy(elem.coordinates)
                     THEN <<InferredStrategy(S("coordinates"), 20, None,
                                             elem.coordinates)>>
                     ELSE <<>>)
            ELSE <<>>
    IN  [InferredGoal("select", <<"Click in ">> \o step.app_name, step.app_name)
            EXCEPT !.success_criteria.timeout_success = TRUE,
                   !.strategies =
                       Sorted(from_element
                              \o <<InferredStrategy(S("gemini_visual"), 50,
                                       S("interactive element to click"), None)>>)]

\* GoalInferrer._extract_bundled_shortcuts
extract_bundled_shortcuts(step, prev_app) ==
    LET app == Or(prev_app, step.app_name)
    IN  (IF InList("paste", step.keyboard_shortcuts)
         THEN <<[InferredGoal("shortcut",
                              <<"Paste", " ", "extracted", " ", "content", " ",
                                "in", " ">> \o app, app)
                   EXCEPT !.success_criteria.timeout_success = TRUE,
                          !.strategies =
                              <<[InferredStrategy(S("paste_content"), 100, None, None)
                                   EXCEPT !.shortcut_keys = <<"command", "+", "v">>]>>,
                          !.template = Placeholder(S("extracted_content")),
                          !.original_step_id = step.step_id]>>
         ELSE <<>>)
        \o (IF InList("save", step.keyboard_shortcuts)
            THEN <<[InferredGoal("save", <<"Save document in ">> \o app, app)
                      EXCEPT !.success_criteria.timeout_success = TRUE,
                             !.strategies =
                                 <<[InferredStrategy(S("save_shortcut"), 100, None, None)
                                      EXCEPT !.shortcut_keys = <<"command", "+", "s">>]>>,
                             !.original_step_id = step.step_id]>>
            ELSE <<>>)

\* original_step_id=step.step_id, which every goal of a step is built with
OfStep(goal, step) == [goal EXCEPT !.original_step_id = step.step_id]

\* GoalInferrer._infer_goal_from_step; NoGoal stands for None
infer_goal_from_step(step, step_index, all_steps, outcome, schema, step_analysis, sorted_params) ==
    IF step.intent = "search" /\ Truthy(step.typed_values)
    THEN OfStep(create_search_goal(step, outcome, sorted_params), step)
    ELSE IF step.intent = "select" /\ DGet(outcome, S("domain_changed"))
    THEN create_navigation_goal(step, outcome, step_index, all_steps, step_analysis)
    ELSE IF step.intent = "select"
    THEN OfStep(create_select_goal(
                    step.app_name, is_listing_click(step, step_index, all_steps),
                    DGet(outcome, S("url_changed")),
                    get_click_ordinal(step_index, all_steps)[1],
                    IF Truthy(step.clicked_elements)
                    THEN step.clicked_elements[1].coordinates ELSE None), step)
    ELSE IF step.intent = "extract" \/ InList("copy", step.keyboard_shortcuts)
    THEN OfStep(create_extract_goal(step.app_name, schema), step)
    ELSE IF step.intent = "write"
    THEN OfStep(IF InList("paste", step.keyboard_shortcuts)
                THEN create_paste_goal(step.app_name)
                ELSE create_write_goal(step.platform, step.app_name,
                                       step.clicked_elements,
                                       Join(S(" "), step.typed_values),
                                       sorted_params), step)
    ELSE IF step.intent = "save"
    THEN OfStep(create_save_goal(step), step)
    ELSE IF step.intent = "launch_app" \/ DGet(outcome, S("app_changed"))
    THEN OfStep(create_launch_goal(Or(DGet(outcome, S("new_app")), step.app_name)),
                step)
    ELSE IF Truthy(step.clicked_elements)
    THEN OfStep(create_generic_click_goal(step, outcome), step)
    ELSE NoGoal

\* self._steps_to_skip: the ids of the steps whose analysis says should_skip
steps_to_skip(analysis) ==
    {analysis[k][1] : k \in {j \in 1..Len(analysis) :
                                DGetOr(analysis[j][2], S("should_skip"), FALSE)}}

\* the call starts: the analysis is made and the loop is entered
InferStart(semantic_steps, analysis, sorted_params) ==
    [pc |-> "loop", semantic_steps |-> semantic_steps, analysis |-> analysis,
     sorted_params |-> sorted_params, i |-> 1, goal_steps |-> <<>>]

\* one iteration of `for i, step in enumerate(semantic_steps)`; inf.i is
\* 1-based, the step_index the code passes on is inf.i - 1
InferStep ==
    /\ inf.pc = "loop"
    /\ inf.i <= Len(inf.semantic_steps)
    /\ LET all_steps == inf.semantic_steps
           step == all_steps[inf.i]
           prev_app == IF inf.i > 1 THEN all_steps[inf.i - 1].app_name ELSE None
           next_steps == SubSeq(all_steps, inf.i + 1, Min(inf.i + 3, Len(all_steps)))
           outcome == analyze_outcome(step, next_steps)
           step_analysis == DGetOr(inf.analysis, step.step_id, <<>>)
           bundled_goals ==
               IF /\ step.boundary_reason = S("app_switch")
                  /\ \/ InList("paste", step.keyboard_shortcuts)
                     \/ InList("save", step.keyboard_shortcuts)
               THEN extract_bundled_shortcuts(step, prev_app)
               ELSE <<>>
           goal == infer_goal_from_step(step, inf.i - 1, all_steps, outcome, <<>>,
                                        step_analysis, inf.sorted_params)
       IN  inf' = [inf EXCEPT
                     !.i = inf.i + 1,
                     !.goal_steps =
                         IF step.step_id \in steps_to_skip(inf.analysis)
                         THEN inf.goal_steps
                         ELSE inf.goal_steps \o bundled_goals
                              \o (IF goal = NoGoal THEN <<>> ELSE <<goal>>)]
    /\ UNCHANGED <<inferIn, inferOut, goalsIn, cons, execVars, limiterVars, sessionVars>>

\* goal_steps = self._consolidate_goals(goal_steps): the call is entered
ConsolidateInferred ==
    /\ inf.pc = "loop"
    /\ inf.i > Len(inf.semantic_steps)
    /\ inf' = [inf EXCEPT !.pc = "consolidate"]
    /\ goalsIn' = inf.goal_steps
    /\ cons' = ConsolidateStart
    /\ UNCHANGED <<inferIn, inferOut, execVars, limiterVars, sessionVars>>

\* the ids the recorder gives to the steps of a recording, in order
StepIds == <<"s1", "s2", "s3", "s4", "s5">>

\* what was recorded of a step: intent, application, URL, typed values,
\* clicked element, shortcuts and why the step boundary was drawn
Recorded(intent, platform, app, url, typed, clicked, shortcuts, boundary) ==
    [SemanticStep(intent, typed, clicked)
        EXCEPT !.platform = platform, !.app_name = app, !.url_before = url,
               !.keyboard_shortcuts = shortcuts, !.boundary_reason = boundary]

RecordedSteps ==
    { Recorded("select", Browser, Chrome, <<"www.", "google.com">>, <<>>,
               <<Element(S("#q"), S("Search"), <<120, 340>>, None)>>,
               <<>>, S("click")),
      Recorded("search", Browser, Chrome, <<"www.", "google.com">>,
               <<S("pizza"), S("yelp")>>, <<>>, <<>>, S("typing")),
      Recorded("select", Browser, Chrome, <<"www.", "google.com", "/search", "?", "q=", "pizza">>,
               <<>>, <<Element(S("a.result"), S("Yelp"), <<200, 400>>, None)>>,
               <<>>, S("click")),
      Recorded("select", Browser, Chrome, <<"www.", "yelp.com", "/restaurants">>, <<>>,
               <<Element(S("a.card"), S("Pizzeria"), None, None)>>, <<>>, S("click")),
      Recorded("extract", Browser, Chrome, <<"www.", "yelp.com", "/biz">>, <<>>, <<>>,
               <<"copy">>, S("copy")),
      Recorded("unknown", Browser, Chrome, <<"www.", "yelp.com", "/about">>, <<>>,
               <<Element(S("#menu"), S("Menu"), <<10, 20>>, None)>>,
               <<>>, S("click")),
      Recorded("launch_app", Desktop, Notes, None, <<>>, <<>>, <<"paste", "save">>,
               S("app_switch")),
      Recorded("write", Desktop, Notes, None, <<<<"h", "i">>>>,
               <<Element(None, None, None, S("AXTextArea"))>>, <<>>, S("typing")),
      Recorded("save", Desktop, Notes, None, <<>>, <<>>, <<"save">>, S("shortcut")) }

\* the seconds between the end of a step and the start of the next one
TimeGaps == {1, 3}

\* a recording: each step lasts one second, ids and timestamps in order
Recording(steps, gap) ==
    [k \in 1..Len(steps) |->
        [steps[k] EXCEPT !.step_id = S(StepIds[k]),
                         !.start_timestamp = (k - 1) * (gap + 1),
                         !.end_timestamp = (k - 1) * (gap + 1) + 1]]

Recordings ==
    { Recording(steps, gap) : steps \in SeqsUpTo(RecordedSteps, MaxSteps),
                              gap \in TimeGaps }

\* result["steps"] of an LLM analysis that merges the first step into the
\* second one
LLMAnalysis(steps) ==
    << <<steps[1].step_id,
         << <<S("is_focus_click"), TRUE>>, <<S("should_skip"), TRUE>>,
            <<S("merge_into"), steps[2].step_id>> >> >> >>

\* the parameters the detector found in the recording, longest value first
RecordedParameters == {p \in DetectedParameters : Len(p) = 1}

\* _analyze_step_sequence_with_llm: the heuristic analysis when the LLM is
\* not available or fails, else what the LLM answered
StepSequenceAnalyses(steps) ==
    {heuristic_step_analysis(steps)}
    \cup (IF Len(steps) >= 2 THEN {LLMAnalysis(steps)} ELSE {})

----------------------------------------------------------------------------
(* RateLimiter: src/utils/rate_limiter.py, and its use by the Gemini client *)
(* (src/utils/gemini_client.py).  Time is counted in whole seconds.  The    *)
(* statistics counters of the limiter are left out: nothing reads them.     *)

Threads == {1, 2}

\* time.time() when the limiter is constructed
Epoch == 1000

\* the limiter calls started so far
Started == ncalls[1] + ncalls[2]

\* the lengths of the sliding windows, and the default timeout of acquire
minute == 60

hour == 3600

timeout == 60

\* how far the clock moves while no thread takes a step
TimeSteps == {60}

RECURSIVE PopOld(_, _)
\* while window and window[0] < limit: window.popleft()
PopOld(window, limit) ==
    IF window # <<>> /\ Head(window) < limit THEN PopOld(Tail(window), limit)
    ELSE window

\* the wait_times list of _calculate_wait_time and its maximum (0 when empty),
\* given the windows after the old entries were removed
WaitTime(mw, hw, t) ==
    LET minute_ago == t - minute
        hour_ago   == t - hour
        w1 == IF Len(mw) >= calls_per_minute THEN {Head(mw) - minute_ago} ELSE {}
        w2 == IF Len(hw) >= calls_per_hour THEN {Head(hw) - hour_ago} ELSE {}
        w3 == IF last_call # 0 /\ min_interval_seconds > 0
                 /\ t - last_call < min_interval_seconds
              THEN {min_interval_seconds - (t - last_call)} ELSE {}
        wait_times == w1 \cup w2 \cup w3
    IN  IF wait_times = {} THEN 0
        ELSE CHOOSE w \in wait_times : \A v \in wait_times : v <= w

\* a thread that holds no call enters acquire through
\* GeminiClient._acquire_rate_limit
CallAcquire(t) ==
    /\ t \in callers
    /\ tpc[t] = "idle"
    /\ Started < MaxCalls
    /\ ncalls' = [ncalls EXCEPT ![t] = @ + 1]
    /\ start_wait' = [start_wait EXCEPT ![t] = now]
    /\ tpc' = [tpc EXCEPT ![t] = "calc"]
    /\ UNCHANGED <<execVars, inferVars, sessionVars, now, lock, minute_window, hour_window, last_call, callers,
                   wait_time, wake, returned, recorded, issued>>

\* a thread enters try_acquire
CallTryAcquire(t) ==
    /\ t \in callers
    /\ tpc[t] = "idle"
    /\ Started < MaxCalls
    /\ ncalls' = [ncalls EXCEPT ![t] = @ + 1]
    /\ tpc' = [tpc EXCEPT ![t] = "try"]
    /\ UNCHANGED <<execVars, inferVars, sessionVars, now, lock, minute_window, hour_window, last_call, callers,
                   wait_time, start_wait, wake, returned, recorded, issued>>

\* the positions at which a thread stands before `with self._lock:`, and the
\* position it reaches inside the block
LockedPosition(pos) ==
    CASE pos = "calc"       -> "calc_in"
      [] pos = "record"     -> "record_in"
      [] pos = "try"        -> "try_in"
      [] pos = "try_in"     -> "try_calc_in"
      [] pos = "try_record" -> "try_record_in"
      [] OTHER              -> "none"

\* `with self._lock:` is entered: threading.Lock is not reentrant, also the
\* thread that holds it has to wait until it is released
TakeLock(t) ==
    /\ LockedPosition(tpc[t]) # "none"
    /\ lock = 0
    /\ lock' = t
    /\ tpc' = [tpc EXCEPT ![t] = LockedPosition(@)]
    /\ UNCHANGED <<execVars, inferVars, sessionVars, now, minute_window, hour_window, last_call, callers,
                   wait_time, start_wait, wake, ncalls, returned, recorded, issued>>

\* the body of _calculate_wait_time, and the end of its `with` block
CalculateWaitTime(t) ==
    /\ tpc[t] \in {"calc_in", "try_calc_in"}
    /\ minute_window' = PopOld(minute_window, now - minute)
    /\ hour_window' = PopOld(hour_window, now - hour)
    /\ wait_time' = [wait_time EXCEPT ![t] = WaitTime(minute_window', hour_window', now)]
    /\ IF tpc[t] = "calc_in"
       THEN /\ tpc' = [tpc EXCEPT ![t] = "decide"]
            /\ lock' = 0
       ELSE /\ tpc' = [tpc EXCEPT ![t] = "try_decide"]
            /\ lock' = lock
    /\ UNCHANGED <<execVars, inferVars, sessionVars, now, last_call, callers, start_wait, wake, ncalls, returned,
                   recorded, issued>>

\* what acquire and try_acquire do with the wait time
Decide(t) ==
    /\ tpc[t] \in {"decide", "try_decide"}
    /\ IF tpc[t] = "try_decide"
       THEN IF wait_time[t] <= 0
            THEN /\ tpc' = [tpc EXCEPT ![t] = "try_record"]
                 /\ UNCHANGED <<returned, wake, lock>>
            ELSE /\ tpc' = [tpc EXCEPT ![t] = "idle"]
                 /\ returned' = [returned EXCEPT ![t] = FALSE]
                 /\ lock' = 0
                 /\ UNCHANGED wake
       ELSE IF wait_time[t] <= 0
            THEN /\ tpc' = [tpc EXCEPT ![t] = "record"]
                 /\ UNCHANGED <<returned, wake, lock>>
            ELSE IF (now - start_wait[t]) + wait_time[t] > timeout
            THEN /\ tpc' = [tpc EXCEPT ![t] = "call"]
                 /\ returned' = [returned EXCEPT ![t] = FALSE]
                 /\ UNCHANGED <<wake, lock>>
            ELSE /\ tpc' = [tpc EXCEPT ![t] = "sleep"]
                 /\ wake' = [wake EXCEPT ![t] = now + wait_time[t]]
                 /\ UNCHANGED <<returned, lock>>
    /\ UNCHANGED <<execVars, inferVars, sessionVars, now, minute_window, hour_window, last_call, callers,
                   wait_time, start_wait, ncalls, recorded, issued>>

\* time.sleep(wait_time) is over
Wake(t) ==
    /\ tpc[t] = "sleep"
    /\ now >= wake[t]
    /\ tpc' = [tpc EXCEPT ![t] = "calc"]
    /\ UNCHANGED <<execVars, inferVars, sessionVars, now, lock, minute_window, hour_window, last_call, callers,
                   wait_time, start_wait, wake, ncalls, returned, recorded, issued>>

\* the body of _record_call, the end of its `with` block and the return True
RecordCall(t) ==
    /\ tpc[t] \in {"record_in", "try_record_in"}
    /\ minute_window' = Append(minute_window, now)
    /\ hour_window' = Append(hour_window, now)
    /\ last_call' = now
    /\ recorded' = Append(recorded, now)
    /\ returned' = [returned EXCEPT ![t] = TRUE]
    /\ lock' = 0
    /\ tpc' = [tpc EXCEPT ![t] = IF tpc[t] = "record_in" THEN "call" ELSE "idle"]
    /\ UNCHANGED <<execVars, inferVars, sessionVars, now, callers, wait_time, start_wait, wake, ncalls, issued>>

\* _acquire_rate_limit has returned, whatever acquire returned, and the
\* Gemini client makes its API call
OracleCall(t) ==
    /\ tpc[t] = "call"
    /\ issued' = Append(issued, now)
    /\ tpc' = [tpc EXCEPT ![t] = "idle"]
    /\ UNCHANGED <<execVars, inferVars, sessionVars, now, lock, minute_window, hour_window, last_call, callers,
                   wait_time, start_wait, wake, ncalls, returned, recorded>>

\* time passes: by a step of the clock, or up to the end of a thread's sleep
Advance ==
    /\ \E d \in TimeSteps \cup {wake[t] - now : t \in {u \in Threads : tpc[u] = "sleep"}} :
          /\ d > 0
          /\ now + d <= Epoch + MaxElapsed
          /\ now' = now + d
    /\ UNCHANGED <<execVars, inferVars, sessionVars, lock, minute_window, hour_window, last_call, callers, tpc,
                   wait_time, start_wait, wake, ncalls, returned, recorded, issued>>

\* a RateLimiter as constructed, used by the threads cs
LimiterInit(cs) ==
    /\ now = Epoch
    /\ lock = 0
    /\ minute_window = <<>>
    /\ hour_window = <<>>
    /\ last_call = 0
    /\ callers = cs
    /\ tpc = [t \in Threads |-> "idle"]
    /\ wait_time = [t \in Threads |-> 0]
    /\ start_wait = [t \in Threads |-> 0]
    /\ wake = [t \in Threads |-> 0]
    /\ ncalls = [t \in Threads |-> 0]
    /\ returned = [t \in Threads |-> FALSE]
    /\ recorded = <<>>
    /\ issued = <<>>

\* the limiter state while another component is under study
LimiterIdle == LimiterInit({})

----------------------------------------------------------------------------
(* WorkflowExecutor.execute_goal_workflow: src/executor/workflow_executor.py *)

\* has_browser_steps = any(s.platform == "browser" for s in workflow.steps)
has_browser_steps == \E k \in 1..Len(wfIn) : wfIn[k].platform = Browser

\* a WorkflowExecutor as constructed, before execute_goal_workflow is called
SessionIdle ==
    /\ xpc = "idle"
    /\ session = "none"
    /\ browser_executor = FALSE
    /\ desktop_executor = FALSE
    /\ raising = FALSE

\* the ways BrowserExecutor.launch can end: it returns the page; it raises
\* before a browser exists (the URL is blocked, Playwright does not start);
\* it raises or is interrupted with the browser open (page.goto fails, the
\* user interrupts the CAPTCHA wait)
LaunchOutcomes ==
    {[session |-> "open", raised |-> FALSE],
     [session |-> "none", raised |-> TRUE],
     [session |-> "open", raised |-> TRUE]}

\* lines 383-389: the browser is launched when the workflow has browser steps
LaunchBrowser ==
    /\ xpc = "idle"
    /\ IF has_browser_steps
       THEN /\ browser_executor' = TRUE
            /\ \E o \in LaunchOutcomes :
                  /\ session' = o.session
                  /\ raising' = o.raised
                  /\ xpc' = IF o.raised THEN "raised" ELSE "setup"
       ELSE /\ xpc' = "setup"
            /\ UNCHANGED <<session, browser_executor, raising>>
    /\ UNCHANGED <<desktop_executor, execVars, inferVars, limiterVars>>

\* lines 392-399: DesktopExecutor() and GoalExecutor(...) are constructed;
\* either constructor may raise, and the user may interrupt
SetUpExecutors ==
    /\ xpc = "setup"
    /\ \/ /\ desktop_executor' = TRUE
          /\ xpc' = "run"
          /\ UNCHANGED raising
       \/ /\ desktop_executor' \in BOOLEAN
          /\ xpc' = "raised"
          /\ raising' = TRUE
    /\ UNCHANGED <<session, browser_executor, execVars, inferVars, limiterVars>>

\* an exception or a KeyboardInterrupt leaves execute_workflow
RunRaises ==
    /\ xpc = "run"
    /\ wpc # "done"
    /\ xpc' = "finally"
    /\ raising' = TRUE
    /\ UNCHANGED <<session, browser_executor, desktop_executor, execVars,
                   inferVars, limiterVars>>

\* lines 428-430: a KeyboardInterrupt that nothing below catches leaves
\* execute_workflow and reaches the finally block
RunInterrupted ==
    /\ xpc = "run"
    /\ wpc # "done"
    /\ interrupted' = TRUE
    /\ xpc' = "finally"
    /\ raising' = TRUE
    /\ UNCHANGED <<session, browser_executor, desktop_executor, runVars, runs,
                   inferVars, limiterVars>>

\* lines 406-427: execute_workflow has returned and the result is converted
RunReturns ==
    /\ xpc = "run"
    /\ wpc = "done"
    /\ xpc' = "finally"
    /\ UNCHANGED <<session, browser_executor, desktop_executor, raising,
                   execVars, inferVars, limiterVars>>

\* the finally block: _cleanup, then the return or the re-raise
Cleanup ==
    /\ xpc = "finally"
    /\ session' = IF browser_executor /\ session = "open" THEN "closed" ELSE session
    /\ browser_executor' = FALSE
    /\ desktop_executor' = FALSE
    /\ xpc' = IF raising THEN "raised" ELSE "returned"
    /\ UNCHANGED <<raising, execVars, inferVars, limiterVars>>

----------------------------------------------------------------------------
(* Specification *)

\* a GoalExecutor as constructed, handed the scenario sc
ExecInit(sc) ==
    /\ loaded = sc.wf
    /\ wfIn = sc.wf
    /\ params = sc.params
    /\ wf = sc.wf
    /\ page = sc.page
    /\ activeApp = sc.activeApp
    /\ gemini = sc.gemini
    /\ oracle = sc.oracle
    /\ oracleIn = sc.oracle
    /\ wpc = "idle"
    /\ gi = 0
    /\ result = NewWorkflowResult(0)
    /\ extracted = <<>>
    /\ lastExt = <<>>
    /\ curPlatform = None
    /\ curApp = None
    /\ gpc = "none"
    /\ gres = NewGoalResult
    /\ retry = 0
    /\ si = 0
    /\ startUrl = <<>>
    /\ agentStep = 0
    /\ last = NoAttempt
    /\ acted = FALSE
    /\ switched = FALSE
    /\ interrupted = FALSE
    /\ runs = 1

Init ==
    /\ \E sc \in Scenarios : ExecInit(sc)
    /\ InferIdle
    /\ LimiterIdle
    /\ SessionIdle

Next ==
    \/ StartWorkflow
    \/ BeginStep
    \/ EnterGoal
    \/ AttemptStrategy
    \/ AfterLoop
    \/ AgentStep
    \/ AgentFinal
    \/ CollectResult
    \/ FinishWorkflow

Spec == Init /\ [][Next]_vars

\* a GoalExecutor that is constructed and never run
ExecIdle == ExecInit(Scenario(<<>>, NoParams, 1, Finder, FALSE, <<>>))

InferInit ==
    /\ ExecIdle
    /\ LimiterIdle
    /\ SessionIdle
    /\ inferIn \in NavigationCalls
    /\ inferOut = NotCalled
    /\ ConsolidateIdle

InferNext == CreateNavigationGoal

\* the inference of one goal from one recorded step
InferSpec == InferInit /\ [][InferNext]_vars

ConsolidateInit ==
    /\ ExecIdle
    /\ LimiterIdle
    /\ SessionIdle
    /\ inferIn = CHOOSE c \in NavigationCalls : TRUE
    /\ inferOut = NotCalled
    /\ goalsIn \in GoalLists
    /\ cons = ConsolidateStart
    /\ inf = NotInferring

ConsolidateNext ==
    \/ ConsolidateGoal
    \/ ReturnConsolidated

\* one call of _consolidate_goals on a list of inferred goals
ConsolidateSpec == ConsolidateInit /\ [][ConsolidateNext]_vars

RecordingInit ==
    /\ ExecIdle
    /\ LimiterIdle
    /\ SessionIdle
    /\ inferIn = CHOOSE c \in NavigationCalls : TRUE
    /\ inferOut = NotCalled
    /\ goalsIn = <<>>
    /\ cons = [ConsolidateStart EXCEPT !.pc = "idle"]
    /\ \E steps \in Recordings, sorted_params \in RecordedParameters :
          \E analysis \in StepSequenceAnalyses(steps) :
             inf = InferStart(steps, analysis, sorted_params)

RecordingNext ==
    \/ InferStep
    \/ ConsolidateInferred
    \/ ConsolidateGoal
    \/ ReturnConsolidated

\* one call of infer_goals_from_semantic_steps on a recording
RecordingSpec == RecordingInit /\ [][RecordingNext]_vars

TemplateInit ==
    /\ ExecIdle
    /\ LimiterIdle
    /\ SessionIdle
    /\ ConsolidateIdle
    /\ inferOut = NotCalled
    /\ \E text \in TemplateTexts, sorted_params \in TemplateParameters :
          inferIn = TemplateCall(text, sorted_params)

TemplateNext == CreateTemplateFromText

\* one call of _create_template_from_text
TemplateSpec == TemplateInit /\ [][TemplateNext]_vars

LimiterSpecInit ==
    /\ ExecIdle
    /\ InferIdle
    /\ SessionIdle
    /\ \E cs \in {{1}, {1, 2}} : LimiterInit(cs)

LimiterNext ==
    \/ Advance
    \/ \E t \in Threads :
         \/ CallAcquire(t)
         \/ CallTryAcquire(t)
         \/ TakeLock(t)
         \/ CalculateWaitTime(t)
         \/ Decide(t)
         \/ Wake(t)
         \/ RecordCall(t)
         \/ OracleCall(t)

\* one RateLimiter shared by the threads of the process
LimiterSpec == LimiterSpecInit /\ [][LimiterNext]_vars

\* the caller hands the same workflow and parameters to execute_workflow of
\* the same GoalExecutor once more; the instance keeps its attributes
CallAgain ==
    /\ wpc = "done"
    /\ runs < MaxRuns
    /\ runs' = runs + 1
    /\ wpc' = "idle"
    /\ UNCHANGED <<otherVars, interrupted, loaded, wfIn, params, wf, gi, result,
                   extracted, lastExt, curPlatform, curApp, gpc, gres, retry, si,
                   startUrl, agentStep, page, activeApp, gemini, oracle,
                   oracleIn, last, acted, switched>>

ReuseNext ==
    \/ Next
    \/ CallAgain

\* a GoalExecutor whose execute_workflow is called up to MaxRuns times
ReuseSpec == Init /\ [][ReuseNext]_vars

\* line 403: goal_executor.execute_workflow takes a step
RunWorkflow ==
    /\ xpc = "run"
    /\ Next

SessionNext ==
    \/ LaunchBrowser
    \/ SetUpExecutors
    \/ RunWorkflow
    \/ RunRaises
    \/ RunInterrupted
    \/ RunReturns
    \/ Cleanup

\* one call of WorkflowExecutor.execute_goal_workflow; it starts in the states
\* Init describes
SessionSpec == Init /\ [][SessionNext]_vars

----------------------------------------------------------------------------
(* Properties *)

\* execute_goal is past its pre-check for the goal step gi
InGoal == wpc = "goal" /\ gpc # "enter"

\* the order in which one round tries two strategies of a goal: the higher
\* priority first, and of two equal priorities the one listed first
TriedBefore(strategies, i, j) ==
    \/ strategies[i].priority > strategies[j].priority
    \/ /\ strategies[i].priority = strategies[j].priority
       /\ i < j

\* C1: within every retry round a strategy that is executed after another
\* one has a lower priority, or the same priority and a later place in
\* goal.strategies; the order is a fixed one, the same in every round.
C1_PriorityOrder ==
    (InGoal /\ last.outcome \notin {"none", "skipped"} /\ last.prev # 0)
        => TriedBefore(wf[gi].strategies, last.prev, last.idx)

\* in a retry round the strategy listed second was executed before the one
\* listed first
C1_Witness ==
    /\ InGoal
    /\ last.outcome \notin {"none", "skipped"}
    /\ last.round >= 1
    /\ last.prev > last.idx
    /\ last.idx >= 1

\* C2: the attempts counted for a goal never exceed max_retries times the
\* number of its strategies, neither while the goal runs (so not when the
\* fallback is entered) nor in the results collected.
C2_AttemptBound ==
    /\ InGoal => gres.attempts <= wf[gi].max_retries * Len(wf[gi].strategies)
    /\ \A k \in 1..Len(result.step_results) :
          result.step_results[k].attempts
              <= wf[k].max_retries * Len(wf[k].strategies)

\* the fallback is entered after two rounds over two strategies
C2_Witness ==
    /\ wpc = "goal"
    /\ gpc = "agent"
    /\ wf[gi].max_retries = 2
    /\ Len(wf[gi].strategies) = 2
    /\ gres.attempts = 4

\* the goals whose results have been collected and that were not achieved
Unachieved == {k \in 1..Len(result.step_results) : ~result.step_results[k].achieved}

\* C3: an unachieved non-optional goal is the last one executed and makes
\* success false; an unachieved optional goal is counted in steps_failed and
\* errors, and the run ends only after the last goal or a non-optional failure.
C3_AbortSemantics ==
    /\ \A k \in Unachieved :
          ~wf[k].optional =>
             /\ k = Len(result.step_results)
             /\ gi = k
             /\ wpc \in {"break", "done"}
             /\ ~result.success
    /\ result.steps_failed = Cardinality(Unachieved)
    /\ Len(result.errors) = Cardinality(Unachieved)
    /\ wpc = "done" =>
          \/ Len(result.step_results) = Len(wf)
          \/ \E k \in Unachieved : ~wf[k].optional

\* a run in which the first goal, not optional, failed and the second goal
\* was never executed
C3_Witness ==
    /\ wpc = "done"
    /\ Len(wf) = 2
    /\ Len(result.step_results) = 1
    /\ ~result.step_results[1].achieved
    /\ ~result.success

\* the error entries execute_workflow writes for a list of goal results
ErrorsOf(results) ==
    LET failed == SelectSeq([k \in 1..Len(results) |-> k],
                            LAMBDA k : ~results[k].achieved)
    IN  [j \in 1..Len(failed) |-> StepError(failed[j], results[failed[j]].error)]

\* C4: every collected result that is not achieved carries a non-empty error,
\* and errors holds exactly one entry for each of them, in execution order.
C4_ExplicitErrors ==
    /\ \A k \in Unachieved : Truthy(result.step_results[k].error)
    /\ result.errors = ErrorsOf(result.step_results)

\* a finished run with two unachieved goals
C4_Witness ==
    /\ wpc = "done"
    /\ Cardinality(Unachieved) = 2
    /\ Len(result.errors) = 2

\* C5: when the pre-check finds the goal satisfied, execute_goal returns
\* achieved with strategy "already_satisfied" and no attempt, no adapter acts,
\* and the tracked platform and app and the world stay as they were.
C5_AlreadySatisfied ==
    [][ ( /\ wpc = "goal"
          /\ gpc = "enter"
          /\ \/ gpc' = "ret"
             \/ IsGoalAlreadySatisfied(wf[gi], HasPage, page, activeApp,
                                       extracted, None) )
        => /\ gpc' = "ret"
           /\ gres'.achieved
           /\ gres'.strategy_used = S("already_satisfied")
           /\ gres'.attempts = 0
           /\ ~acted'
           /\ curPlatform' = curPlatform
           /\ curApp' = curApp
           /\ page' = page
           /\ activeApp' = activeApp ]_vars

\* a desktop launch goal found satisfied while no platform was tracked yet
C5_Witness ==
    /\ wpc = "goal"
    /\ gpc = "ret"
    /\ gres.strategy_used = S("already_satisfied")
    /\ wf[gi].platform = Desktop
    /\ curPlatform = None
    /\ curApp = None

\* what the success criteria ask for, read off their fields: every predicate
\* that is set holds of the page shown, the frontmost app and the fields
\* last extracted
EverySpecifiedPredicateHolds(criteria, start_url, hasPage, pg, active, le) ==
    LET current_url == IF hasPage THEN Pages[pg].url ELSE <<>>
    IN  /\ Truthy(criteria.url_contains) =>
              Contains(Lower(current_url), Lower(criteria.url_contains))
        /\ Truthy(criteria.url_pattern) => Contains(current_url, criteria.url_pattern)
        /\ criteria.url_changed => current_url # start_url
        /\ Truthy(criteria.page_type) => hasPage /\ Pages[pg].type = criteria.page_type
        /\ Truthy(criteria.page_contains_text) =>
              hasPage /\ Contains(Pages[pg].text, criteria.page_contains_text)
        /\ Truthy(criteria.element_visible) =>
              hasPage /\ criteria.element_visible \in Pages[pg].visible
        /\ criteria.min_extracted_count > 0 => Len(le) >= criteria.min_extracted_count
        /\ Truthy(criteria.app_active) => active = criteria.app_active

\* C6: unless timeout_success is set, the criteria check that follows an
\* executed strategy answers true exactly when every predicate set in the
\* criteria holds: URL, page type, page text, visible element, extracted
\* count, active app.
C6_CriteriaExact ==
    (wpc = "goal" /\ ~wf[gi].success_criteria.timeout_success) =>
        LET holds == EverySpecifiedPredicateHolds(wf[gi].success_criteria,
                         startUrl, HasPage, page, activeApp, lastExt)
        IN  /\ (gpc = "ret" /\ last.outcome = "met") => holds
            /\ (gpc = "loop" /\ last.outcome = "unmet") => ~holds

\* the goal has no criteria to meet
NothingToMeet(goal) ==
    is_empty(goal.success_criteria) \/ goal.success_criteria.timeout_success

C8_Accumulates ==
    ( /\ wpc = "done"
      /\ Len(wf) = 2
      /\ \A k \in 1..2 : wf[k].goal_type = "extract"
      /\ Len(oracleIn) = 2
      /\ \A k \in 1..2 : Truthy(oracleIn[k])
      /\ Len(result.step_results) = 2
      /\ \A k \in 1..2 : result.step_results[k].achieved )
        => result.extracted_data = DUpdate(oracleIn[1], oracleIn[2])

\* the string fields of a strategy and of the success criteria
StrategyStringFields ==
    {"selector", "text_match", "visual_description", "input_value", "shortcut_keys"}

CriteriaStringFields ==
    {"url_contains", "url_pattern", "page_type", "page_contains_text",
     "element_visible", "element_contains", "app_active"}

\* C9: in the working copy every string field of every step (description,
\* template, prompt, step parameters, strategy fields, success criteria) is
\* the caller's field with each {{name}} of the parameter map replaced.
C9_EveryFieldSubstituted ==
    (wpc = "loop" /\ gi = 1 /\ Truthy(params)) =>
        \A k \in 1..Len(wfIn) :
            /\ wf[k].goal_description = replace_params(wfIn[k].goal_description, params)
            /\ wf[k].template = replace_params(wfIn[k].template, params)
            /\ wf[k].agent_goal_prompt = replace_params(wfIn[k].agent_goal_prompt, params)
            /\ wf[k].parameters = replace_params_dict(wfIn[k].parameters, params)
            /\ \A j \in 1..Len(wfIn[k].strategies) : \A f \in StrategyStringFields :
                  wf[k].strategies[j][f] = replace_params(wfIn[k].strategies[j][f], params)
            /\ \A f \in CriteriaStringFields :
                  wf[k].success_criteria[f]
                      = replace_params(wfIn[k].success_criteria[f], params)

\* the strategies C10 speaks of: a shortcut on the deny-list, or a typed
\* value on the shell deny-list while the goal's app is a terminal
DenyListed(goal, strategy) ==
    \/ /\ Truthy(strategy.shortcut_keys)
       /\ LET parts == SplitOn(strategy.shortcut_keys, "+", <<>>)
          IN  ~check_shortcut([k \in 1..Len(parts) |-> Strip(parts[k])])
    \/ /\ Truthy(strategy.input_value)
       /\ is_terminal_context(goal.app_name)
       /\ MatchesBlockedPattern(strategy.input_value)

\* C10: a deny-listed strategy ends blocked with no adapter side effect; every
\* iteration of the strategy loop, a blocked one included, is counted as an
\* attempt; and after a blocked attempt the goal leaves the loop only when
\* the last retry round is over.
C10_BlockedStrategy ==
    InGoal =>
        LET goal == wf[gi]
        IN  /\ ( /\ last.outcome \notin {"none", "skipped"}
                 /\ DenyListed(goal, goal.strategies[last.idx]) )
                  => last.outcome = "blocked" /\ last.fx = <<>>
            /\ gpc = "loop" =>
                  gres.attempts = retry * Len(goal.strategies) + (si - 1)
            /\ (last.outcome = "blocked" /\ gpc # "loop") =>
                  retry = goal.max_retries

\* after a blocked attempt the next strategy of the goal was executed and
\* achieved it as the second attempt
C10_Witness ==
    /\ InGoal
    /\ last.outcome = "met"
    /\ last.prev # 0
    /\ DenyListed(wf[gi], wf[gi].strategies[last.prev])
    /\ gres.achieved
    /\ gres.attempts = 2

\* the goal has no strategy and does not allow the agent fallback
NoWayToAct(goal) == goal.strategies = <<>> /\ ~goal.fallback_to_agent

\* C11 as stated: a goal with no strategies and fallback_to_agent false is
\* never reported achieved.
C11_NeverAchieved ==
    (InGoal /\ NoWayToAct(wf[gi])) => ~gres.achieved

\* C11: a goal with no strategies and fallback_to_agent false makes no attempt
\* and is never achieved by a strategy or by the agent: it is reported
\* achieved only by the state-aware pre-check, as "already_satisfied", and
\* otherwise returns unachieved with an error.
C11_AchievedOnlyByPreCheck ==
    (InGoal /\ NoWayToAct(wf[gi])) =>
        /\ gres.attempts = 0
        /\ last = NoAttempt
        /\ ~gres.fallback_used
        /\ gpc \in {"loop", "ret"}
        /\ gres.achieved => gres.strategy_used = S("already_satisfied")
        /\ (gpc = "ret" /\ ~gres.achieved) => gres.error = AllFailed(0)

\* such a goal, with a prompt and the oracle available, returned unachieved
C11_Witness ==
    /\ InGoal
    /\ NoWayToAct(wf[gi])
    /\ gemini
    /\ Truthy(wf[gi].agent_goal_prompt)
    /\ wf[gi].max_retries >= 1
    /\ gpc = "ret"
    /\ ~gres.achieved
    /\ Truthy(gres.error)

\* C12: execute_workflow leaves the caller's GoalWorkflow object as it was
\* loaded, whatever the parameter map, an empty or absent one included.
C12_CallerWorkflowUnchanged == wfIn = loaded

\* C13: a goal without the agent fallback that ran its strategy loop (the
\* pre-check did not end it) and whose criteria no strategy met returns
\* unachieved, with attempts = max_retries * number of strategies, no
\* strategy_used and a non-empty error.
C13_ExhaustedGoalFails ==
    ( /\ InGoal
      /\ gpc = "ret"
      /\ ~wf[gi].fallback_to_agent
      /\ gres.strategy_used # S("already_satisfied")
      /\ last.outcome # "met" )
        => /\ ~gres.achieved
           /\ gres.attempts = wf[gi].max_retries * Len(wf[gi].strategies)
           /\ gres.strategy_used = None
           /\ Truthy(gres.error)
           /\ gres.error = AllFailed(gres.attempts)

\* one strategy and max_retries = 2 under url_changed: both executions left
\* the URL as it was and the goal returned after two attempts
C13_Witness ==
    /\ InGoal
    /\ gpc = "ret"
    /\ ~wf[gi].fallback_to_agent
    /\ wf[gi].success_criteria.url_changed
    /\ Len(wf[gi].strategies) = 1
    /\ wf[gi].max_retries = 2
    /\ last.outcome = "unmet"
    /\ last.round = 1
    /\ gres.attempts = 2
    /\ ~gres.achieved

\* the criteria ask for a number of extracted fields and for nothing else
OnlyMinCount(c) ==
    /\ c.min_extracted_count > 0
    /\ [c EXCEPT !.min_extracted_count = 0] = EmptyCriteria

\* the fields of the most recent extraction of the run that returned data
LastYield ==
    LET consumed == SubSeq(oracleIn, 1, Len(oracleIn) - Len(oracle))
        yields   == SelectSeq(consumed, Truthy)
    IN  IF yields = <<>> THEN <<>> ELSE yields[Len(yields)]

Inferred == inferOut # NotCalled /\ inferOut.goal_type = "navigate"

\* the navigation intent the step-sequence analysis gave for the click
\* (any_result when it gave none)
IntentOf(call) == DGetOr(call.step_analysis, S("navigation_intent"), S("any_result"))

\* the target domain detected for the click: the site the analysis named,
\* or else the domain the recorded click led to
DetectedDomain(call) ==
    Or(DGetOr(call.step_analysis, S("target_site"), None),
       DGetOr(call.outcome, S("new_domain"), None))

\* an intent of any_result or first_result leaves url_contains unset and asks
\* for a changed URL
FlexibleHalf ==
    (Inferred /\ IntentOf(inferIn) \in {S("any_result"), S("first_result")}) =>
        /\ inferOut.success_criteria.url_contains = None
        /\ inferOut.success_criteria.url_changed

\* C15 as stated: a Navigate goal inferred with intent any_result or
\* first_result has url_contains unset and url_changed true; one inferred
\* with intent specific_site and a detected target domain has url_contains
\* equal to that domain.
C15_UrlContainsIsTheDomain ==
    /\ FlexibleHalf
    /\ (Inferred /\ IntentOf(inferIn) = S("specific_site")
            /\ Truthy(DetectedDomain(inferIn))) =>
           inferOut.success_criteria.url_contains = DetectedDomain(inferIn)

\* C15, amended: a Navigate goal inferred with intent any_result or
\* first_result has url_contains unset and url_changed true; one inferred
\* with intent specific_site has url_changed true and, when the click follows
\* a search whose query names a known site, url_contains is the placeholder
\* {{site_filter}} and the goal's parameters bind site_filter to the site the
\* analysis named; otherwise url_contains is the detected target domain.
C15_DomainOrPlaceholder ==
    /\ FlexibleHalf
    /\ (Inferred /\ IntentOf(inferIn) = S("specific_site")
            /\ Truthy(DetectedDomain(inferIn))) =>
           /\ inferOut.success_criteria.url_changed
           /\ IF is_from_site_filtered_search(inferIn.step_index, inferIn.all_steps)
              THEN /\ inferOut.success_criteria.url_contains = <<"{", "{", "site_filter", "}", "}">>
                   /\ inferOut.parameters =
                        <<<<S("site_filter"),
                            StrVal(DGetOr(inferIn.step_analysis, S("target_site"), None))>>>>
              ELSE /\ inferOut.success_criteria.url_contains = DetectedDomain(inferIn)
                   /\ inferOut.parameters = <<>>

\* a specific_site goal was inferred for a click that follows a search for
\* "pizza Yelp": its url_contains is the placeholder, not the domain
C15_Witness ==
    /\ Inferred
    /\ IntentOf(inferIn) = S("specific_site")
    /\ DetectedDomain(inferIn) = S("yelp.com")
    /\ is_from_site_filtered_search(inferIn.step_index, inferIn.all_steps)
    /\ inferOut.success_criteria.url_contains # DetectedDomain(inferIn)

\* the success criteria of the goal in execution can be found met, resp.
\* unmet, by a check made in the current state
CheckCanHold ==
    \E validate \in ValidateAnswers(wf[gi].success_criteria, page) :
    \E textRaises \in TextRaises(wf[gi].success_criteria) :
        CheckSuccessCriteria(wf[gi].success_criteria, wf[gi], startUrl, HasPage,
                             page, activeApp, lastExt, validate, textRaises)

CheckCanFail ==
    \E validate \in ValidateAnswers(wf[gi].success_criteria, page) :
    \E textRaises \in TextRaises(wf[gi].success_criteria) :
        ~CheckSuccessCriteria(wf[gi].success_criteria, wf[gi], startUrl, HasPage,
                              page, activeApp, lastExt, validate, textRaises)

\* the agent fallback of the goal in execution has returned false
FallbackReturnedFalse ==
    /\ wpc = "goal"
    /\ gpc = "ret"
    /\ FallbackAllowed(wf[gi])
    /\ ~gres.achieved

\* C16: the agent fallback requests at most 5 actions and executes at most
\* one per request; it goes on to another request only after a criteria check
\* that did not hold, returns true only from a check that held, and returns
\* false only from a final check that did not hold.
C16_AgentLoop ==
    /\ agentStep <= max_agent_steps
    /\ (InGoal /\ gpc = "agent") => agentStep < max_agent_steps
    /\ (InGoal /\ gpc \in {"agent", "agent_final"} /\ agentStep > 0) => CheckCanFail
    /\ (InGoal /\ gpc = "ret" /\ gres.fallback_used) => CheckCanHold
    /\ FallbackReturnedFalse => CheckCanFail

\* how many of the times lie in the window of the given length that ends at t
InWindow(times, t, length) ==
    Cardinality({k \in 1..Len(times) : t - length < times[k] /\ times[k] <= t})

\* calls made at these times keep to the three limits: no 60-second window
\* holds more than calls_per_minute of them, no hour more than
\* calls_per_hour, and consecutive ones are min_interval_seconds apart
WithinLimits(times) ==
    /\ \A k \in 1..Len(times) :
          /\ InWindow(times, times[k], minute) <= calls_per_minute
          /\ InWindow(times, times[k], hour) <= calls_per_hour
    /\ \A k \in 2..Len(times) : times[k] - times[k - 1] >= min_interval_seconds

\* C17: the Gemini client issues an oracle call only when acquire has
\* admitted it, so the oracle calls keep to the per-minute and per-hour
\* limits and to the minimum interval; stated for a process in which a
\* single thread uses the limiter, where no interleaving is involved.
C17_OracleCallsAdmitted ==
    callers = {1} =>
        /\ \A t \in callers : tpc[t] = "call" => returned[t]
        /\ WithinLimits(issued)

\* C18: for every interleaving of the threads that call acquire, the calls
\* the limiter records keep to the per-minute and per-hour limits and are
\* min_interval_seconds apart.
C18_RecordedWithinLimits == WithinLimits(recorded)

\* C19: try_acquire never waits: once it is inside its `with self._lock:`
\* block it can go on to compute the wait time, and then returns.
C19_TryAcquireNeverWaits ==
    \A t \in Threads : tpc[t] = "try_in" => ENABLED TakeLock(t)

\* C20: after execute_goal_workflow has returned or raised, no browser
\* session it launched is still open.
C20_SessionReleased ==
    xpc \in {"returned", "raised"} => session # "open"

\* C21: once a user interrupt has arrived during a goal-workflow run, the run
\* loop starts nothing more: no further strategy attempt and no further goal
C21_InterruptAborts ==
    [][interrupted => /\ gres'.attempts <= gres.attempts
                      /\ (gpc' = "enter" => gpc = "enter")]_vars

\* C22: every execute_workflow run, the second on the same instance included,
\* enters its loop with the extracted-data map empty and the tracked current
\* platform and current app reset
C22_RunStartsFresh ==
    (wpc = "loop" /\ gi = 1) =>
        /\ extracted = <<>>
        /\ lastExt = <<>>
        /\ curPlatform = None
        /\ curApp = None

\* C23: the switch step before the first strategy of a goal leaves the
\* tracked platform and app equal to those of the goal, and activates the
\* app whenever either of them differed from the goal's
C23_SwitchTracksGoal ==
    [][(wpc = "goal" /\ gpc = "enter" /\ gpc' = "loop") =>
          /\ curPlatform' = wf[gi].platform
          /\ curApp' = wf[gi].app_name
          /\ (curPlatform # wf[gi].platform \/ curApp # wf[gi].app_name)
                => acted']_vars

\* C24: the agent fallback runs only after every retry round over every
\* strategy has been spent without success and only for a goal that allows it
\* (fallback_to_agent, a goal prompt, an available oracle); a goal that
\* returns unachieved, fallback entered or not, carries the all-attempts-failed
\* error
C24_FallbackLast ==
    wpc = "goal" =>
        LET goal == wf[gi]
            spent == gres.attempts = goal.max_retries * Len(goal.strategies)
            allowed == /\ goal.fallback_to_agent
                       /\ gemini
                       /\ Truthy(goal.agent_goal_prompt)
        IN  /\ gpc \in {"agent", "agent_final", "raised"} =>
                  spent /\ allowed /\ ~gres.achieved
            /\ (gpc = "ret" /\ gres.fallback_used) =>
                  spent /\ allowed /\ gres.achieved
            /\ (gpc = "ret" /\ ~gres.achieved) =>
                  /\ spent
                  /\ gres.error = AllFailed(gres.attempts)
                  /\ ~gres.fallback_used

\* the fallback was entered, took a step and did not meet the criteria
C24_Witness ==
    /\ wpc = "goal"
    /\ gpc = "ret"
    /\ ~gres.achieved
    /\ agentStep > 0
    /\ gres.attempts > 0

\* C25: whatever a strategy of a goal with a template writes (typed text or
\* clipboard content) is the template resolved against the extracted-data
\* map of that moment, unmatched placeholders left as they are
C25_WritesFilledTemplate ==
    (wpc = "goal" /\ gpc \in {"loop", "ret"} /\ Truthy(wf[gi].template)) =>
        \A k \in 1..Len(last.fx) :
            last.fx[k].kind \in {"type", "clipboard"} =>
                last.fx[k].arg = fill_template(wf[gi].template, extracted)

\* C26: execute_goal is never left by an exception: whatever a strategy, a
\* criteria check or the fallback raises, it goes on and returns a GoalResult
C26_NoFailureEscapes ==
    wpc = "goal" => gpc # "raised"

\* C27: a strategy whose requires_platform guard differs from the goal's
\* platform, or whose requires_url_pattern guard does not match the current
\* URL, is skipped: the attempt has no side effect and leaves the page alone
C27_GuardedStrategySkipped ==
    [][(/\ wpc = "goal" /\ gpc = "loop" /\ LoopRunning(wf[gi])
        /\ gres'.attempts = gres.attempts + 1
        /\ LET goal == wf[gi]
               strategy == goal.strategies[SortedStrategies(goal.strategies)[si]]
           IN  \/ /\ Truthy(strategy.requires_platform)
                  /\ strategy.requires_platform # goal.platform
               \/ /\ Truthy(strategy.requires_url_pattern)
                  /\ HasPage
                  /\ ~Contains(Pages[page].url, strategy.requires_url_pattern))
       => /\ last'.outcome = "skipped"
          /\ last'.fx = <<>>
          /\ page' = page]_vars

\* C28: the list the consolidation pass returns has no EXTRACT goal after
\* its first EXTRACT goal with a schema
C28_NoExtractAfterSchema ==
    cons.pc = "done" =>
        \A k \in 1..Len(cons.consolidated) :
            (/\ cons.consolidated[k].goal_type = "extract"
             /\ Truthy(cons.consolidated[k].extraction_schema)) =>
                \A j \in (k + 1)..Len(cons.consolidated) :
                    cons.consolidated[j].goal_type # "extract"

\* the text a WRITE goal types: its strategy's input with the goal's own
\* parameters filled in
TypedContent(goal) == ReplaceAll(goal.strategies[1].input_value, goal.parameters)

\* C29: of the WRITE goals handed to the consolidation pass, exactly those
\* whose typed content is longer than 2 characters after trimming are
\* returned, label goals included
C29_WritesKeptByLength ==
    cons.pc = "done" =>
        SelectSeq(cons.consolidated, LAMBDA g : g.goal_type = "write")
          = SelectSeq(goalsIn, LAMBDA g : /\ g.goal_type = "write"
                                         /\ Len(Strip(TypedContent(g))) > 2)

\* a SELECT goal the pass may drop: generic description, no selector, text
\* or specific visual strategy, and a timeout accepted as success
GenericSelect(goal) ==
    /\ goal.goal_type = "select"
    /\ Contains(Lower(goal.goal_description), <<"click", " ", "element", " ", "in">>)
    /\ \A k \in 1..Len(goal.strategies) :
          /\ ~Truthy(goal.strategies[k].selector)
          /\ ~Truthy(goal.strategies[k].text_match)
          /\ Truthy(goal.strategies[k].visual_description) =>
                Contains(goal.strategies[k].visual_description, S("first"))
    /\ goal.success_criteria.timeout_success

\* C30: every SELECT goal handed to the consolidation pass that is not a
\* generic one accepting a timeout is returned; in particular the SELECT
\* goals that require a URL change without timeout success all are
C30_OnlyGenericSelectsDropped ==
    cons.pc = "done" =>
        SelectSeq(cons.consolidated,
                  LAMBDA g : g.goal_type = "select" /\ ~GenericSelect(g))
          = SelectSeq(goalsIn,
                      LAMBDA g : g.goal_type = "select" /\ ~GenericSelect(g))

\* C31: in the list the consolidation pass returns, a LAUNCH goal never
\* comes right after a goal of the app it launches, a LAUNCH goal for the
\* same app included
C31_NoLaunchIntoCurrentApp ==
    cons.pc = "done" =>
        \A k \in 2..Len(cons.consolidated) :
            cons.consolidated[k].goal_type = "launch" =>
                cons.consolidated[k - 1].app_name # cons.consolidated[k].app_name

\* a launch into the app of the goal kept before it was dropped, and a
\* launch into another app was kept
C31_Witness ==
    /\ cons.pc = "done"
    /\ Len(goalsIn) = 3
    /\ goalsIn[1].goal_type = "extract"
    /\ goalsIn[2].goal_type = "launch"
    /\ goalsIn[2].app_name = goalsIn[1].app_name
    /\ goalsIn[3].goal_type = "launch"
    /\ goalsIn[3].app_name # goalsIn[1].app_name
    /\ cons.consolidated = <<goalsIn[1], goalsIn[3]>>

\* the goal carries the element: one of its strategies has the selector,
\* the text or the coordinates that were recorded of it
CarriesElement(goal, elem) ==
    \E k \in 1..Len(goal.strategies) :
        \/ Truthy(elem.selector) /\ goal.strategies[k].selector = elem.selector
        \/ Truthy(elem.text) /\ goal.strategies[k].text_match = elem.text
        \/ Truthy(elem.coordinates)
              /\ goal.strategies[k].coordinates = elem.coordinates

\* the goal carries the typed text: in its template or in a strategy input
CarriesText(goal, text) ==
    \/ Contains(ReplaceAll(goal.template, goal.parameters), text)
    \/ \E k \in 1..Len(goal.strategies) :
          Contains(ReplaceAll(goal.strategies[k].input_value, goal.parameters), text)

\* C32: once the loop over the recording is over, a step the analysis marked
\* should_skip has no goal of its own, and each element it clicked and each
\* text it typed is carried by a goal of the step it was merged into
C32_MergedContentCarried ==
    inf.pc = "consolidate" =>
        \A k \in 1..Len(inf.semantic_steps) :
            LET step == inf.semantic_steps[k]
                merge_into == DGetOr(DGetOr(inf.analysis, step.step_id, <<>>),
                                     S("merge_into"), None)
                GoalsOf(id) == {j \in 1..Len(inf.goal_steps) :
                                   inf.goal_steps[j].original_step_id = id}
            IN  step.step_id \in steps_to_skip(inf.analysis) =>
                    /\ GoalsOf(step.step_id) = {}
                    /\ \A e \in 1..Len(step.clicked_elements) :
                          \E j \in GoalsOf(merge_into) :
                              CarriesElement(inf.goal_steps[j], step.clicked_elements[e])
                    /\ \A t \in 1..Len(step.typed_values) :
                          \E j \in GoalsOf(merge_into) :
                              CarriesText(inf.goal_steps[j], step.typed_values[t])

\* the position in the recording of the step with this id
StepOf(id) ==
    CHOOSE k \in 1..Len(inf.semantic_steps) : inf.semantic_steps[k].step_id = id

\* the goals of goal_steps that _create_select_goal built: SELECT goals of
\* a select step
SelectGoals ==
    {j \in 1..Len(inf.goal_steps) :
        /\ inf.goal_steps[j].goal_type = "select"
        /\ inf.semantic_steps[StepOf(inf.goal_steps[j].original_step_id)].intent
              = "select"}

\* the URL before step k looks like a list or search page, or one of the
\* two steps after it extracts
ListingClick(k) ==
    \/ \E t \in 1..Len(list_page_indicators) :
          InList(list_page_indicators[t], Lower(inf.semantic_steps[k].url_before))
    \/ \E n \in {k + 1, k + 2} :
          /\ n <= Len(inf.semantic_steps)
          /\ \/ inf.semantic_steps[n].intent = "extract"
             \/ InList("copy", inf.semantic_steps[n].keyboard_shortcuts)

\* one of the three steps after step k was recorded on another URL, and
\* the steps between stayed in the application of step k
RecordedUrlChange(k) ==
    LET steps == inf.semantic_steps
    IN  /\ Truthy(steps[k].url_before)
        /\ \E n \in (k + 1)..Min(k + 3, Len(steps)) :
              /\ Truthy(steps[n].url_before)
              /\ steps[n].url_before # steps[k].url_before
              /\ \A m \in (k + 1)..(n - 1) :
                    /\ steps[m].app_name = steps[k].app_name
                    /\ ~Truthy(steps[m].url_before)
                          \/ steps[m].url_before = steps[k].url_before

\* criteria that require a URL change and refuse a timeout as success
StrictCriteria(goal) ==
    /\ goal.success_criteria.url_changed
    /\ ~goal.success_criteria.timeout_success

CoordinatesLast(goal) ==
    /\ \A k \in 1..(Len(goal.strategies) - 1) :
          goal.strategies[k].priority >= goal.strategies[k + 1].priority
    /\ \A c, k \in 1..Len(goal.strategies) :
          (/\ goal.strategies[c].name = S("coordinates")
           /\ goal.strategies[k].name # S("coordinates")) =>
              goal.strategies[c].priority < goal.strategies[k].priority

\* C34: every goal inferred from a recording, before and after the
\* consolidation, has its strategies in descending priority order with the
\* coordinates strategy, if any, strictly below all others
C34_CoordinatesLowest ==
    /\ \A j \in 1..Len(inf.goal_steps) : CoordinatesLast(inf.goal_steps[j])
    /\ \A j \in 1..Len(cons.consolidated) : CoordinatesLast(cons.consolidated[j])

\* a generic click goal and a navigation goal were inferred, each with the
\* recorded coordinates as the last of at least three strategies
C34_Witness ==
    /\ inf.pc = "consolidate"
    /\ \E i, j \in 1..Len(inf.goal_steps) :
          LET click == inf.goal_steps[i]
              nav == inf.goal_steps[j]
          IN  /\ click.goal_type = "select"
              /\ Len(click.strategies) = 4
              /\ click.strategies[3].name = S("gemini_visual")
              /\ click.strategies[4].name = S("coordinates")
              /\ click.strategies[4].priority = 20
              /\ nav.goal_type = "navigate"
              /\ Len(nav.strategies) >= 3
              /\ nav.strategies[Len(nav.strategies)].name = S("coordinates")
              /\ nav.strategies[Len(nav.strategies)].priority = 10

\* C35: execute_goal never returns a Search goal that has a strategy as
\* achieved without an attempt: the pre-check does not short-circuit it,
\* whatever URL the browser shows
C35_SearchAlwaysAttempted ==
    ( /\ wpc = "goal"
      /\ gpc = "ret"
      /\ wf[gi].goal_type = "search"
      /\ wf[gi].strategies # <<>>
      /\ gres.achieved )
    => /\ gres.attempts >= 1
       /\ gres.strategy_used # S("already_satisfied")

\* the strategies of the inferred WRITE, SHORTCUT and SAVE goals that type
\* or press keys themselves
TypingStrategies ==
    {S("accessibility_type"), S("focused_type"), S("selector_type"),
     S("paste_content"), S("save_shortcut")}

\* C36: when execute_goal returns achieved by one of the typing strategies,
\* the attempt that met the criteria typed a text or pressed a shortcut on
\* the adapter
C36_AchievedStrategyActed ==
    ( /\ wpc = "goal"
      /\ gpc = "ret"
      /\ gres.achieved
      /\ ~gres.fallback_used
      /\ gres.strategy_used \in TypingStrategies )
    => /\ last.outcome = "met"
       /\ \E k \in 1..Len(last.fx) : last.fx[k].kind \in {"type", "press"}

\* what the safety guard says of one adapter side effect in the application
\* of the goal: a typed text passes check_typed_text, a pressed shortcut
\* passes check_shortcut
GuardAllows(fx, goal) ==
    /\ fx.kind = "type" => check_typed_text(fx.arg, goal.app_name)
    /\ fx.kind = "press" =>
          check_shortcut([k \in 1..Len(SplitOn(fx.arg, "+", <<>>)) |->
                             Strip(SplitOn(fx.arg, "+", <<>>)[k])])

\* C37: every text a strategy typed and every shortcut it pressed is one
\* the safety guard allows in the application of the goal, and so is every
\* text an action of the planning oracle types in the agent fallback
C37_NothingTypedUnguarded ==
    InGoal =>
        /\ \A k \in 1..Len(last.fx) : GuardAllows(last.fx[k], wf[gi])
        /\ (gpc = "agent" /\ HasPage) =>
              \A action \in AgentActions :
                  \A o \in ExecuteAgentAction(action, wf[gi].platform) :
                      \A k \in 1..Len(o.fx) : GuardAllows(o.fx[k], wf[gi])

\* C38: when execute_workflow has returned, every step result is counted
\* once, as executed when achieved and as failed otherwise, there are at
\* most total_steps of them, each failure has one error entry, and success
\* is false exactly when a goal that is not optional was not achieved
C38_ResultAccounting ==
    wpc = "done" =>
        LET n == Len(result.step_results)
            failed == {k \in 1..n : ~result.step_results[k].achieved}
        IN  /\ result.steps_executed + result.steps_failed = n
            /\ result.steps_failed = Cardinality(failed)
            /\ n <= result.total_steps
            /\ result.total_steps = Len(wf)
            /\ Len(result.errors) = result.steps_failed
            /\ ~result.success <=> \E k \in failed : ~wf[k].optional

\* a run of two goals that returned success although its first goal, an
\* optional one, failed and left an error entry
C38_Witness ==
    /\ wpc = "done"
    /\ result.total_steps = 2
    /\ result.success
    /\ result.steps_executed = 1
    /\ result.steps_failed = 1
    /\ Len(result.errors) = 1
    /\ ~result.step_results[1].achieved
    /\ wf[1].optional

\* C39: the template and the parameter map _create_template_from_text
\* returns give back the typed text when the map is substituted into the
\* template, and the template holds the placeholder of every parameter of
\* the map
C39_TemplateRoundTrips ==
    (DOMAIN inferIn = {"text", "sorted_params"} /\ inferOut # NotCalled) =>
        /\ ReplaceAll(inferOut.template, inferOut.params) = inferIn.text
        /\ \A name \in DKeys(inferOut.params) :
              Contains(inferOut.template, Placeholder(name))

====
